---- MODULE Spec2Model ----
(***************************************************************************)
(* Model of the Docker sandbox of the Sandbox Environment API:             *)
(* services/docker_sandbox.py (DockerSandbox), its lifespan in main.py and *)
(* the settings of config.py.                                              *)
(*                                                                         *)
(* The application runs on one asyncio event loop.  A coroutine keeps the  *)
(* loop until it awaits something that suspends.  execute_python_code and  *)
(* _remove_container are "async def" but contain no suspending await       *)
(* (every Docker SDK call is a blocking call), so a request handler keeps  *)
(* the loop from entry to return.  The variable loop records the owner.    *)
(* The Docker daemon and the wall clock move on their own.                 *)
(*                                                                         *)
(* Time is in seconds since the lifespan's startup; the clock is observed  *)
(* every DOCKER_TIMEOUT seconds.                                           *)
(***************************************************************************)
EXTENDS Integers, Sequences, FiniteSets, TLC

\* ---------------------------------------------------------------- bounds
NumCalls == 2
MaxExecs == 2
MaxTests == 2
MaxStart == 60
MaxSubmissions == 1
MaxInFlight == 1

\* ------------------------------------------------------------ settings
DOCKER_TIMEOUT == 30
CONTAINER_TTL  == 300
SweepInterval  == 60
DOCKER_MEMORY_LIMIT == "256m"
DOCKER_CPU_QUOTA    == 50000

\* settings.CONTAINER_TTL is read from the environment (pydantic
\* BaseSettings); 300 is the default.
TTLValues == {0, CONTAINER_TTL}

\* explicit timeout arguments of execute_python_code (line 90); an omitted
\* timeout (None) is written 0, which line 101 treats in the same way
TimeoutArgs == {2 * DOCKER_TIMEOUT}

TickStep == DOCKER_TIMEOUT

\* the clock's range: a request accepted by MaxStart can end, its registry
\* entry can expire and a sweep can follow
MaxTime == MaxStart + MaxTests * DOCKER_TIMEOUT + CONTAINER_TTL + SweepInterval

CallIds      == 1..NumCalls
ContainerIds == 1..MaxExecs

\* ------------------------------------------------------------ values
\* Optional values: None is the empty tuple, Some(v) the 1-tuple.
None    == <<>>
Some(v) == <<v>>

\* Texts are tuples of characters (outputs) or of words (messages).
Outputs == { <<"1", "\n">>, <<"2", "\n">> }

\* str(e) of the exceptions the Docker SDK raises
StrTimeout == <<"Read", "timed", "out.">>
StrFault   == <<"APIError">>

CodeStr(c) == CASE c = 0 -> "0" [] c = 1 -> "1" [] OTHER -> "137"

\* exit statuses a program may end with on its own
ExitCodes == {0, 1}

ErrUnavailable == <<"Docker", "client", "not", "available">>
ErrExit(c)     == <<"Process", "exited", "with", "code", CodeStr(c)>>
ErrTimeoutOrError(s) == <<"Execution", "timeout", "or", "error:">> \o s

Outcome(s, o, e, t) ==
    [success |-> s, output |-> o, error |-> e, execution_time |-> t]

\* ------------------------------------------------------------ dict helpers
Put(d, k, v) == [x \in (DOMAIN d) \cup {k} |-> IF x = k THEN v ELSE d[x]]
Del(d, k)    == [x \in (DOMAIN d) \ {k} |-> d[x]]

\* ------------------------------------------------------------ state
VARIABLES
    client,        \* DockerSandbox.client: TRUE connected, FALSE None
    containers,    \* DockerSandbox.containers: id -> [created_at, expires_at]
    cleanup_task,  \* "none" | "sleeping" | "cancelled"
    wake_at,       \* end of the pending asyncio.sleep(60) of _cleanup_loop
    ttl,           \* settings.CONTAINER_TTL
    now,           \* wall clock (utcnow / time.time)
    env,           \* Docker daemon: id -> [st, code, created, cfg, call, out]
    phase,         \* lifespan of main.py: "startup" | "serving" | "stopped"
    loop,          \* owner of the event loop: 0 idle, else a call id
    frame,         \* per call: the locals of the running coroutine
    nexec,         \* number of execute_python_code invocations so far
    files,         \* program files in the host temp directory
    errlog,        \* ids for which _remove_container printed "Error removing"
    oklog,         \* ids for which _remove_container printed "Removed"
    db             \* MongoDB: the collections the code routes write to

vars == <<client, containers, cleanup_task, wake_at, ttl, now, env, phase,
          loop, frame, nexec, files, errlog, oklog, db>>

\* the directory of the program files, os.path.dirname(temp_file): the
\* host's temp directory
TempDir == "tempdir"

\* mutant: the container is created on the default bridge network
CreateArgs_Bridge(temp_file) ==
    [image |-> "python:3.11-slim",
     command |-> <<"python", "/code", temp_file>>,
     volumes |-> [host |-> TempDir, bind |-> "/code", mode |-> "ro"],
     mem_limit |-> DOCKER_MEMORY_LIMIT,
     cpu_quota |-> DOCKER_CPU_QUOTA,
     network_mode |-> "bridge",
     detach |-> TRUE]

\* lines 115-124: the arguments of client.containers.create; the program is
\* /code/<basename of temp_file>, the mount is the directory of temp_file
CreateArgs(temp_file) ==
    [image |-> "python:3.11-slim",
     command |-> <<"python", "/code", temp_file>>,
     volumes |-> [host |-> TempDir, bind |-> "/code", mode |-> "ro"],
     mem_limit |-> DOCKER_MEMORY_LIMIT,
     cpu_quota |-> DOCKER_CPU_QUOTA,
     network_mode |-> "none",
     detach |-> TRUE]

\* a container of the daemon: cfg is what it was created with, call the
\* call of solution its program made and out what the program wrote to its
\* output and error streams (where the program is followed)
EnvNone ==
    [st |-> "none", code |-> 0, created |-> 0, cfg |-> None, call |-> None,
     out |-> None]

\* the collections of the application's database before any submission
EmptyDb == [code_submissions |-> <<>>, user_attempt_summaries |-> <<>>]

\* the locals of a call; before, did_stop, did_remove, waits and timed_out
\* record what the call met and did, ran what the program of the current test
\* case did (where the program is followed)
\* request, question, evaluation and submission_id are the locals of the
\* routes of routes/code.py
IdleFrame ==
    [pc |-> "idle", kind |-> "none", arg |-> 0, timeout |-> 0,
     container_id |-> 0, start_time |-> 0, temp_file |-> 0, container |-> 0,
     deadline |-> 0, result |-> 0, outcome |-> None, before |-> {},
     did_stop |-> FALSE, did_remove |-> FALSE, waits |-> 0,
     timed_out |-> FALSE, exc |-> <<>>, tests |-> <<>>, i |-> 0,
     results |-> <<>>, all_passed |-> TRUE, ret |-> None, ran |-> None,
     request |-> None, question |-> None, evaluation |-> None,
     submission_id |-> 0]

Init ==
    /\ client \in BOOLEAN
    /\ containers = <<>>
    /\ cleanup_task = "none"
    /\ wake_at = 0
    /\ ttl \in TTLValues
    /\ now = 0
    /\ env = [c \in ContainerIds |-> EnvNone]
    /\ phase = "startup"
    /\ loop = 0
    /\ frame = [k \in CallIds |-> IdleFrame]
    /\ nexec = 0
    /\ files = {}
    /\ errlog = {}
    /\ oklog = {}
    /\ db = EmptyDb

F(k) == frame[k]

\* ------------------------------------------------------------ Docker daemon
Exists(e) == e.st \in {"created", "running", "exited"}

\* mutant: stop leaves the container running again
DockerStop_Restart(e) == [e EXCEPT !.st = "running"]

\* container.stop(timeout=1): a running container is killed; a created or
\* exited one is left as it is
DockerStop(e) ==
    IF e.st = "running" THEN [e EXCEPT !.st = "exited", !.code = 137] ELSE e

\* container.remove(force=True)
DockerRemove(e) ==
    [st |-> "removed", code |-> 0, created |-> 0, cfg |-> None, call |-> None,
     out |-> None]

\* the program inside a running container ends on its own
ProgramExit(c) ==
    /\ env[c].st = "running"
    /\ \E x \in ExitCodes :
          env' = [env EXCEPT ![c] = [@ EXCEPT !.st = "exited", !.code = x]]
    /\ UNCHANGED <<client, containers, cleanup_task, wake_at, ttl, now, phase,
                   loop, frame, nexec, files, errlog, oklog,
                   db>>

\* ------------------------------------------------------------ clock
\* the clock is followed while something the program does depends on it: a
\* request can arrive or is running, or the registry holds an expiry
ClockNeeded ==
    \/ now < MaxStart
    \/ loop # 0
    \/ containers # <<>>

\* The clock advances while the loop is idle (not past the Reaper's timer,
\* which fires on an idle loop when due) or while the running coroutine is
\* blocked in container.wait (not past the deadline of that wait).  The other
\* Docker calls return within one clock step.
Tick ==
    /\ phase = "serving"
    /\ now + TickStep <= MaxTime
    /\ ClockNeeded
    /\ IF loop = 0
         THEN cleanup_task = "sleeping" => now + TickStep <= wake_at
         ELSE F(loop).pc = "wait" /\ now + TickStep <= F(loop).deadline
    /\ now' = now + TickStep
    /\ UNCHANGED <<client, containers, cleanup_task, wake_at, ttl, env, phase,
                   loop, frame, nexec, files, errlog, oklog,
                   db>>

\* ------------------------------------------------------------ Reaper
\* mutants of the expiry test of line 69
Expired_Late(current_time, expires_at) == current_time > expires_at + SweepInterval
Expired_All(current_time, expires_at) == TRUE
Expired_Reversed(current_time, expires_at) == current_time < expires_at

\* mutant: a handle counts as expired at the instant of its expiry
Expired_OnTime(current_time, expires_at) == current_time >= expires_at

\* current_time > info["expires_at"]
Expired(current_time, expires_at) == current_time > expires_at

\* what _remove_container may meet: containers.get, stop or remove raising;
\* a remove request may raise (a read timeout) although the daemon carries it
\* out ("remove_lost"); containers.get raises NotFound for a container that
\* is gone
RemoveResults ==
    {"ok", "get_raises", "stop_raises", "remove_raises", "remove_lost"}

RemoveOutcomes(e) == IF Exists(e) THEN RemoveResults ELSE {"get_raises"}

\* mutant: the remove call of line 81 is dropped
EnvAfterRemove_StopOnly(e, o) ==
    IF o \in {"ok", "remove_raises"} THEN DockerStop(e) ELSE e

\* the container after _remove_container's try block
EnvAfterRemove(e, o) ==
    CASE o \in {"ok", "remove_lost"} -> DockerRemove(DockerStop(e))
      [] o = "remove_raises" -> DockerStop(e)
      [] OTHER               -> e

\* mutant: unregistering one handle empties the registry
RegistryAfterRemove_Clear(reg, S) == [x \in {} |-> reg[x]]

\* mutant: the finally block of _remove_container (lines 85-87) is dropped
RegistryAfterRemove_Keep(reg, S) == reg

\* the registry after _remove_container's finally block ran for every id of S
RegistryAfterRemove(reg, S) == [x \in (DOMAIN reg) \ S |-> reg[x]]

\* mutant: the loop over the handles does nothing
RemoveContainers_Skip(S, f) == UNCHANGED <<env, containers, errlog, oklog>>

\* _remove_container for every id of S, f[c] being what the Docker calls do
RemoveContainers(S, f) ==
    /\ env' = [c \in ContainerIds |->
                 IF c \in S THEN EnvAfterRemove(env[c], f[c]) ELSE env[c]]
    /\ containers' = RegistryAfterRemove(containers, S)
    /\ errlog' = errlog \cup {c \in S : f[c] # "ok"}
    /\ oklog' = oklog \cup {c \in S : f[c] = "ok"}

ExpiredIds(reg, current_time) ==
    {c \in DOMAIN reg : Expired(current_time, reg[c].expires_at)}

\* mutant: a task is created at every call
StartsTask_Always(c, task) == c

\* line 54: "if self.client and self.cleanup_task is None"
StartsTask(c, task) == c /\ task = "none"

\* start_cleanup_task, whose task runs to its first sleep: called by the
\* lifespan at startup (main.py line 21); a later call finds the loop idle
start_cleanup_task ==
    /\ phase = "startup" \/ (phase = "serving" /\ loop = 0)
    /\ IF StartsTask(client, cleanup_task)
         THEN cleanup_task' = "sleeping" /\ wake_at' = now + SweepInterval
         ELSE UNCHANGED <<cleanup_task, wake_at>>
    /\ phase' = "serving"
    /\ UNCHANGED <<client, containers, ttl, now, env, loop, frame, nexec,
                   files, errlog, oklog,
                   db>>

\* mutant: the Reaper's task resumes whether or not a coroutine holds the loop
LoopIdle_Always == TRUE

\* a task whose sleep ended (line 60) resumes when no coroutine holds the
\* event loop
LoopIdle == loop = 0

\* one turn of _cleanup_loop: the sleep ends, cleanup_expired_containers
\* runs, the loop sleeps again
cleanup_expired_containers ==
    /\ phase = "serving"
    /\ cleanup_task = "sleeping"
    /\ LoopIdle
    /\ now >= wake_at
    /\ LET expired == ExpiredIds(containers, now) IN
         \E f \in [expired -> RemoveResults] :
            /\ \A c \in expired : f[c] \in RemoveOutcomes(env[c])
            /\ RemoveContainers(expired, f)
    /\ wake_at' = now + SweepInterval
    /\ UNCHANGED <<client, cleanup_task, ttl, now, phase, loop, frame, nexec,
                   files, db>>

\* lifespan shutdown
shutdown ==
    /\ phase = "serving"
    /\ loop = 0
    /\ cleanup_task' = IF cleanup_task = "sleeping" THEN "cancelled" ELSE cleanup_task
    /\ LET all == DOMAIN containers IN
         \E f \in [all -> RemoveResults] :
            /\ \A c \in all : f[c] \in RemoveOutcomes(env[c])
            /\ RemoveContainers(all, f)
    /\ phase' = "stopped"
    /\ UNCHANGED <<client, wake_at, ttl, now, loop, frame, nexec, files, db>>

\* ------------------------------------------------------------ requests
\* what str(e) may be for an exception caught by the outer except
ExcTexts == {StrFault, <<>>}

EffectiveTimeout(timeout) == IF timeout # 0 THEN timeout ELSE DOCKER_TIMEOUT

Elapsed(f) == now - f.start_time

\* a request is accepted while the service runs and the loop is free, up to
\* MaxStart; it takes the first free frame
Accepts(k) ==
    /\ phase = "serving"
    /\ loop = 0
    /\ now <= MaxStart
    /\ F(k).pc = "idle"
    /\ \A j \in CallIds : j < k => F(j).pc # "idle"

\* routes/code.py run_code: execute_python_code(code=...), timeout omitted
run_code(k) ==
    /\ Accepts(k)
    /\ nexec + 1 <= MaxExecs
    /\ loop' = k
    /\ frame' = [frame EXCEPT ![k] = [IdleFrame EXCEPT !.pc = "exec",
                                        !.kind = "run", !.arg = 0]]
    /\ UNCHANGED <<client, containers, cleanup_task, wake_at, ttl, now, env,
                   phase, nexec, files, errlog, oklog,
                   db>>

\* a caller awaits execute_python_code(code, timeout=t) with an explicit
\* timeout
execute_python_code(k, t) ==
    /\ Accepts(k)
    /\ nexec + 1 <= MaxExecs
    /\ loop' = k
    /\ frame' = [frame EXCEPT ![k] = [IdleFrame EXCEPT !.pc = "exec",
                                        !.kind = "call", !.arg = t]]
    /\ UNCHANGED <<client, containers, cleanup_task, wake_at, ttl, now, env,
                   phase, nexec, files, errlog, oklog,
                   db>>

\* mutant: the disabled check is skipped
Disabled_Skipped(c) == FALSE

\* line 93: "if not self.client"
Disabled(c) == ~c

\* mutant: every execution is given the same identifier
FreshId_Same(n) == 1

\* the identifier of the n+1st execution: uuid4 (line 102) and the id of the
\* container the daemon creates for it (line 115) are new each time
FreshId(n) == n + 1

\* execute_python_code, lines 93-103
Exec_Entry(k) ==
    /\ loop = k
    /\ F(k).pc = "exec"
    /\ IF Disabled(client)
         THEN /\ frame' = [frame EXCEPT ![k] = [@ EXCEPT
                    !.pc = "exec_ret", !.before = DOMAIN containers,
                    !.outcome = Some(Outcome(FALSE, None, Some(ErrUnavailable), 0))]]
              /\ UNCHANGED nexec
         ELSE /\ frame' = [frame EXCEPT ![k] = [@ EXCEPT
                    !.pc = "tempfile", !.before = DOMAIN containers,
                    !.timeout = EffectiveTimeout(F(k).arg),
                    !.container_id = FreshId(nexec), !.start_time = now,
                    !.temp_file = 0, !.container = 0, !.deadline = 0,
                    !.result = 0, !.outcome = None, !.did_stop = FALSE,
                    !.did_remove = FALSE, !.waits = 0, !.timed_out = FALSE,
                    !.exc = <<>>]]
              /\ nexec' = nexec + 1
    /\ UNCHANGED <<client, containers, cleanup_task, wake_at, ttl, now, env,
                   phase, loop, files, errlog, oklog,
                   db>>

\* mutant: the outer except is missing, the exception leaves the call after
\* the finally block
OuterExcept_Raise(k, s) == [F(k) EXCEPT !.pc = "fin_stop", !.exc = s]

\* mutant: the outer except returns an outcome without an error text
OuterExcept_NoError(k, s) ==
    [F(k) EXCEPT !.pc = "fin_stop",
                 !.outcome = Some(Outcome(FALSE, None, None, Elapsed(F(k))))]

\* the outer "except Exception as e" (lines 175-181), then the finally block
OuterExcept(k, s) ==
    [F(k) EXCEPT !.pc = "fin_stop",
                 !.outcome = Some(Outcome(FALSE, None, Some(s), Elapsed(F(k))))]

\* lines 107-112: the program file is written to the temp directory
Exec_TempFile(k) ==
    /\ loop = k
    /\ F(k).pc = "tempfile"
    /\ \/ /\ files' = files \cup {F(k).container_id}
          /\ frame' = [frame EXCEPT ![k] = [@ EXCEPT !.pc = "create",
                                             !.temp_file = F(k).container_id]]
       \/ \* NamedTemporaryFile raises: no file
          /\ \E s \in ExcTexts : frame' = [frame EXCEPT ![k] = OuterExcept(k, s)]
          /\ UNCHANGED files
       \/ \* f.write raises: the file exists (delete=False), temp_file is unbound
          /\ files' = files \cup {F(k).container_id}
          /\ \E s \in ExcTexts : frame' = [frame EXCEPT ![k] = OuterExcept(k, s)]
    /\ UNCHANGED <<client, containers, cleanup_task, wake_at, ttl, now, env,
                   phase, loop, nexec, errlog, oklog,
                   db>>

\* lines 115-124: client.containers.create
Exec_Create(k) ==
    /\ loop = k
    /\ F(k).pc = "create"
    /\ \/ /\ env' = [env EXCEPT ![F(k).container_id] =
                          [st |-> "created", code |-> 0, created |-> now,
                           cfg |-> Some(CreateArgs(F(k).temp_file)),
                           call |-> None, out |-> None]]
          /\ frame' = [frame EXCEPT ![k] = [@ EXCEPT !.pc = "register",
                                             !.container = F(k).container_id]]
       \/ /\ \E s \in ExcTexts : frame' = [frame EXCEPT ![k] = OuterExcept(k, s)]
          /\ UNCHANGED env
    /\ UNCHANGED <<client, containers, cleanup_task, wake_at, ttl, now, phase,
                   loop, nexec, files, errlog, oklog,
                   db>>

\* lines 127-131: the registry entry
RegistryEntry(t, container_ttl) ==
    [created_at |-> t, expires_at |-> t + container_ttl]

\* line 118: the bind mount is a directory of the host, so what a running
\* container can read under /code is whatever that directory holds at the
\* time; fs is the set of program files in the host's temp directory
Readable(e, fs) ==
    IF e.st = "running" /\ e.cfg[1].volumes.host = TempDir THEN fs ELSE {}

\* mutant: the container is started without a registry entry
Exec_Register_Skip(k) ==
    /\ loop = k
    /\ F(k).pc = "register"
    /\ frame' = [frame EXCEPT ![k] = [@ EXCEPT !.pc = "start"]]
    /\ UNCHANGED <<client, containers, cleanup_task, wake_at, ttl, now, env,
                   phase, loop, nexec, files, errlog, oklog,
                   db>>

\* lines 127-131: the container is recorded under its id
Exec_Register(k) ==
    /\ loop = k
    /\ F(k).pc = "register"
    /\ containers' = Put(containers, F(k).container, RegistryEntry(now, ttl))
    /\ frame' = [frame EXCEPT ![k] = [@ EXCEPT !.pc = "start"]]
    /\ UNCHANGED <<client, cleanup_task, wake_at, ttl, now, env, phase, loop,
                   nexec, files, errlog, oklog,
                   db>>

\* mutant: the timeout is not passed on, the wait ends with the SDK's own
\* (longer) default
WaitDeadline_Default(t, timeout) == t + timeout + 2 * TickStep

\* the deadline of container.wait(timeout=timeout) called at time t
WaitDeadline(t, timeout) == t + timeout

\* line 134 container.start(), then line 138 enters container.wait
Exec_Start(k) ==
    /\ loop = k
    /\ F(k).pc = "start"
    /\ \/ /\ Exists(env[F(k).container])
          /\ env' = [env EXCEPT ![F(k).container] = [@ EXCEPT !.st = "running"]]
          /\ frame' = [frame EXCEPT ![k] = [@ EXCEPT !.pc = "wait",
                          !.waits = @ + 1,
                          !.deadline = WaitDeadline(now, F(k).timeout)]]
       \/ /\ \E s \in ExcTexts : frame' = [frame EXCEPT ![k] = OuterExcept(k, s)]
          /\ UNCHANGED env
    /\ UNCHANGED <<client, containers, cleanup_task, wake_at, ttl, now, phase,
                   loop, nexec, files, errlog, oklog,
                   db>>

\* line 138: container.wait returns the exit status, or its timeout ends it
Exec_Wait(k) ==
    /\ loop = k
    /\ F(k).pc = "wait"
    /\ \/ /\ env[F(k).container].st = "exited"
          /\ frame' = [frame EXCEPT ![k] = [@ EXCEPT !.pc = "logs",
                          !.result = env[F(k).container].code]]
       \/ /\ env[F(k).container].st = "running"
          /\ now >= F(k).deadline
          /\ frame' = [frame EXCEPT ![k] = [@ EXCEPT !.pc = "logs_err",
                          !.timed_out = TRUE, !.exc = StrTimeout]]
    /\ UNCHANGED <<client, containers, cleanup_task, wake_at, ttl, now, env,
                   phase, loop, nexec, files, errlog, oklog,
                   db>>

\* line 138: container.wait raises for another reason (a runtime fault)
Exec_WaitFault(k) ==
    /\ loop = k
    /\ F(k).pc = "wait"
    /\ frame' = [frame EXCEPT ![k] = [@ EXCEPT !.pc = "logs_err",
                                        !.exc = StrFault]]
    /\ UNCHANGED <<client, containers, cleanup_task, wake_at, ttl, now, env,
                   phase, loop, nexec, files, errlog, oklog,
                   db>>

\* mutant: the exit status is not looked at
ExitOutcome_AlwaysOk(exit_code, logs, execution_time) ==
    Outcome(TRUE, Some(logs), None, execution_time)

\* mutant: the non-zero branch forgets its error text
ExitOutcome_NoError(exit_code, logs, execution_time) ==
    Outcome(exit_code = 0, Some(logs), None, execution_time)

\* lines 144-159: the outcome of a wait that returned
ExitOutcome(exit_code, logs, execution_time) ==
    IF exit_code = 0
      THEN Outcome(TRUE, Some(logs), None, execution_time)
      ELSE Outcome(FALSE, Some(logs), Some(ErrExit(exit_code)), execution_time)

\* container.logs(stdout=True, stderr=True).decode("utf-8"): what the
\* program wrote, any of Outputs where the program is not followed
Logs(e) == IF e.out = None THEN Outputs ELSE {e.out[1]}

\* line 139: container.logs after the wait returned
Exec_Logs(k) ==
    /\ loop = k
    /\ F(k).pc = "logs"
    /\ \/ \E logs \in Logs(env[F(k).container]) :
            frame' = [frame EXCEPT ![k] = [@ EXCEPT !.pc = "fin_stop",
                !.outcome = Some(ExitOutcome(F(k).result, logs, Elapsed(F(k))))]]
       \/ frame' = [frame EXCEPT ![k] = [@ EXCEPT !.pc = "logs_err",
                                          !.exc = StrFault]]
    /\ UNCHANGED <<client, containers, cleanup_task, wake_at, ttl, now, env,
                   phase, loop, nexec, files, errlog, oklog,
                   db>>

\* mutant: a fault whose output could be retrieved counts as a success
FaultOutcome_OkWithLogs(logs, e, execution_time) ==
    Outcome(logs # None, logs,
            IF logs # None THEN None ELSE Some(ErrTimeoutOrError(e)),
            execution_time)

\* lines 168-173: the outcome of the inner except
FaultOutcome(logs, e, execution_time) ==
    Outcome(FALSE, logs, Some(ErrTimeoutOrError(e)), execution_time)

\* lines 161-173: the inner except tries the logs once more
Exec_LogsAfterFault(k) ==
    /\ loop = k
    /\ F(k).pc = "logs_err"
    /\ \E logs \in {Some(o) : o \in Logs(env[F(k).container])} \cup {None} :
          frame' = [frame EXCEPT ![k] = [@ EXCEPT !.pc = "fin_stop",
              !.outcome = Some(FaultOutcome(logs, F(k).exc, Elapsed(F(k))))]]
    /\ UNCHANGED <<client, containers, cleanup_task, wake_at, ttl, now, env,
                   phase, loop, nexec, files, errlog, oklog,
                   db>>

\* ------------------------------------------------------------ finally block
\* line 186: container.stop(timeout=1); with container unbound the name
\* lookup raises and the bare except swallows it
Exec_FinStop(k) ==
    /\ loop = k
    /\ F(k).pc = "fin_stop"
    /\ \/ /\ F(k).container = 0
          /\ frame' = [frame EXCEPT ![k] = [@ EXCEPT !.pc = "fin_unlink"]]
          /\ UNCHANGED env
       \/ /\ F(k).container # 0
          /\ Exists(env[F(k).container])
          /\ env' = [env EXCEPT ![F(k).container] = DockerStop(@)]
          /\ frame' = [frame EXCEPT ![k] = [@ EXCEPT !.pc = "fin_remove",
                                             !.did_stop = TRUE]]
       \/ /\ F(k).container # 0
          /\ frame' = [frame EXCEPT ![k] = [@ EXCEPT !.pc = "fin_unlink",
                                             !.did_stop = TRUE]]
          /\ UNCHANGED env
    /\ UNCHANGED <<client, containers, cleanup_task, wake_at, ttl, now, phase,
                   loop, nexec, files, errlog, oklog,
                   db>>

\* line 187: container.remove(force=True)
Exec_FinRemove(k) ==
    /\ loop = k
    /\ F(k).pc = "fin_remove"
    /\ \/ /\ Exists(env[F(k).container])
          /\ env' = [env EXCEPT ![F(k).container] = DockerRemove(@)]
          /\ frame' = [frame EXCEPT ![k] = [@ EXCEPT !.pc = "fin_del",
                                             !.did_remove = TRUE]]
       \/ /\ frame' = [frame EXCEPT ![k] = [@ EXCEPT !.pc = "fin_unlink",
                                             !.did_remove = TRUE]]
          /\ UNCHANGED env
       \/ \* the request raises although the daemon removes the container
          /\ Exists(env[F(k).container])
          /\ env' = [env EXCEPT ![F(k).container] = DockerRemove(@)]
          /\ frame' = [frame EXCEPT ![k] = [@ EXCEPT !.pc = "fin_unlink",
                                             !.did_remove = TRUE]]
    /\ UNCHANGED <<client, containers, cleanup_task, wake_at, ttl, now, phase,
                   loop, nexec, files, errlog, oklog,
                   db>>

\* lines 188-189
Exec_FinDel(k) ==
    /\ loop = k
    /\ F(k).pc = "fin_del"
    /\ containers' = IF F(k).container \in DOMAIN containers
                       THEN Del(containers, F(k).container)
                       ELSE containers
    /\ frame' = [frame EXCEPT ![k] = [@ EXCEPT !.pc = "fin_unlink"]]
    /\ UNCHANGED <<client, cleanup_task, wake_at, ttl, now, env, phase, loop,
                   nexec, files, errlog, oklog,
                   db>>

\* lines 193-196: os.unlink(temp_file)
Exec_FinUnlink(k) ==
    /\ loop = k
    /\ F(k).pc = "fin_unlink"
    /\ \/ /\ F(k).temp_file # 0
          /\ files' = files \ {F(k).temp_file}
       \/ UNCHANGED files
    /\ frame' = [frame EXCEPT ![k] = [@ EXCEPT !.pc = "exec_ret"]]
    /\ UNCHANGED <<client, containers, cleanup_task, wake_at, ttl, now, env,
                   phase, loop, nexec, errlog, oklog,
                   db>>

\* ------------------------------------------------------------ run_code
\* routes/code.py run_code: the response built from the outcome
RunCodeResponse(result) ==
    [success |-> result.success, output |-> result.output,
     error |-> result.error, execution_time |-> result.execution_time]

run_code_return(k) ==
    /\ loop = k
    /\ F(k).pc = "exec_ret"
    /\ F(k).kind = "run"
    /\ frame' = [frame EXCEPT ![k] = [@ EXCEPT !.pc = "done",
                    !.ret = Some(RunCodeResponse(F(k).outcome[1]))]]
    /\ UNCHANGED <<client, containers, cleanup_task, wake_at, ttl, now, env,
                   phase, loop, nexec, files, errlog, oklog,
                   db>>

\* the response is sent, or the direct caller has its outcome; the
\* coroutine ends and frees the loop
Respond(k) ==
    /\ loop = k
    /\ \/ F(k).pc = "done"
       \/ F(k).pc = "exec_ret" /\ F(k).kind = "call"
    /\ frame' = [frame EXCEPT ![k] = IdleFrame]
    /\ loop' = 0
    /\ UNCHANGED <<client, containers, cleanup_task, wake_at, ttl, now, env,
                   phase, nexec, files, errlog, oklog,
                   db>>

\* ------------------------------------------------------------ test suites
IsSpace(ch) == ch \in {" ", "\n", "\t"}

\* mutant: lstrip in place of strip
Strip_Left(s) ==
    LET keep == {j \in 1..Len(s) : ~IsSpace(s[j])} IN
      IF keep = {} THEN <<>>
      ELSE SubSeq(s, CHOOSE j \in keep : \A m \in keep : j <= m, Len(s))

\* str.strip()
Strip(s) ==
    LET keep == {j \in 1..Len(s) : ~IsSpace(s[j])} IN
      IF keep = {} THEN <<>>
      ELSE SubSeq(s, CHOOSE j \in keep : \A m \in keep : j <= m,
                     CHOOSE j \in keep : \A m \in keep : j >= m)

\* expected_output comes from the question document: a text or a number
Text(s) == [t |-> "str", s |-> s]
Num(n)  == [t |-> "int", n |-> n]

DigitChar(d) ==
    CASE d = 0 -> "0" [] d = 1 -> "1" [] d = 2 -> "2" [] d = 3 -> "3"
      [] d = 4 -> "4" [] d = 5 -> "5" [] d = 6 -> "6" [] d = 7 -> "7"
      [] d = 8 -> "8" [] OTHER -> "9"

RECURSIVE Digits(_)
Digits(n) ==
    IF n < 10 THEN <<DigitChar(n)>>
    ELSE Digits(n \div 10) \o <<DigitChar(n % 10)>>

\* str(expected_output), line 250
PyStr(v) == IF v.t = "str" THEN v.s ELSE Digits(v.n)

Inputs    == { <<"5">> }
Expecteds == { Text(<<"1", " ">>) }
TestCases == [input : Inputs, expected_output : Expecteds]
TestSuites == UNION {[1..n -> TestCases] : n \in 0..MaxTests}

\* mutant: the output of a failed execution is compared as well
TestCaseResult_CompareAlways(i, test_case, result) ==
    [test_case |-> i,
     passed |-> /\ result.output # None
                /\ Strip(result.output[1]) =
                      Strip(PyStr(test_case.expected_output)),
     input |-> test_case.input,
     expected |-> test_case.expected_output,
     error |-> result.error,
     output |-> result.output,
     execution_time |-> result.execution_time]

\* mutant: the results are numbered from 0 (enumerate's index as it is)
TestCaseResult_ZeroBased(i, test_case, result) ==
    IF result.success
      THEN [test_case |-> i - 1,
            passed |-> Strip(result.output[1]) =
                          Strip(PyStr(test_case.expected_output)),
            input |-> test_case.input,
            expected |-> Strip(PyStr(test_case.expected_output)),
            actual |-> Strip(result.output[1]),
            execution_time |-> result.execution_time]
      ELSE [test_case |-> i - 1,
            passed |-> FALSE,
            input |-> test_case.input,
            expected |-> test_case.expected_output,
            error |-> result.error,
            output |-> result.output,
            execution_time |-> result.execution_time]

\* lines 248-278: the result recorded for test case i
TestCaseResult(i, test_case, result) ==
    IF result.success
      THEN [test_case |-> i,
            passed |-> Strip(result.output[1]) =
                          Strip(PyStr(test_case.expected_output)),
            input |-> test_case.input,
            expected |-> Strip(PyStr(test_case.expected_output)),
            actual |-> Strip(result.output[1]),
            execution_time |-> result.execution_time]
      ELSE [test_case |-> i,
            passed |-> FALSE,
            input |-> test_case.input,
            expected |-> test_case.expected_output,
            error |-> result.error,
            output |-> result.output,
            execution_time |-> result.execution_time]

\* mutant: a failed execution does not clear all_passed (line 278 dropped)
AllPassedAfter_KeepOnError(all_passed, r) ==
    all_passed /\ (r.passed \/ "error" \in DOMAIN r)

\* lines 264-265 and 278
AllPassedAfter(all_passed, r) == all_passed /\ r.passed

\* line 284: sum(1 for r in results if r.get("passed", False))
RECURSIVE CountPassed(_)
CountPassed(results) ==
    IF results = <<>> THEN 0
    ELSE (IF Head(results).passed THEN 1 ELSE 0) + CountPassed(Tail(results))

\* lines 280-285
SuiteResult(all_passed, results, test_cases) ==
    [success |-> all_passed, test_results |-> results,
     total_tests |-> Len(test_cases), passed_tests |-> CountPassed(results)]

\* routes/code.py submit_code calls execute_code_with_tests(code, test_cases)
submit_code(k, test_cases) ==
    /\ Accepts(k)
    /\ nexec + Len(test_cases) <= MaxExecs
    /\ loop' = k
    /\ frame' = [frame EXCEPT ![k] = [IdleFrame EXCEPT !.pc = "suite",
                    !.kind = "suite", !.tests = test_cases, !.i = 1]]
    /\ UNCHANGED <<client, containers, cleanup_task, wake_at, ttl, now, env,
                   phase, nexec, files, errlog, oklog,
                   db>>

\* mutant: the loop stops at the first failed test case
Suite_Loop_Abort(k) ==
    /\ loop = k
    /\ F(k).pc = "suite"
    /\ IF F(k).i <= Len(F(k).tests) /\ F(k).all_passed
         THEN frame' = [frame EXCEPT ![k] = [@ EXCEPT !.pc = "exec", !.arg = 0]]
         ELSE frame' = [frame EXCEPT ![k] = [@ EXCEPT !.pc = "done",
                  !.ret = Some(SuiteResult(F(k).all_passed, F(k).results,
                                           F(k).tests))]]
    /\ UNCHANGED <<client, containers, cleanup_task, wake_at, ttl, now, env,
                   phase, loop, nexec, files, errlog, oklog,
                   db>>

\* the head of the for loop (line 205) and the return (lines 280-285)
Suite_Loop(k) ==
    /\ loop = k
    /\ F(k).pc = "suite"
    /\ IF F(k).i <= Len(F(k).tests)
         THEN frame' = [frame EXCEPT ![k] = [@ EXCEPT !.pc = "exec", !.arg = 0]]
         ELSE frame' = [frame EXCEPT ![k] = [@ EXCEPT !.pc = "done",
                  !.ret = Some(SuiteResult(F(k).all_passed, F(k).results,
                                           F(k).tests))]]
    /\ UNCHANGED <<client, containers, cleanup_task, wake_at, ttl, now, env,
                   phase, loop, nexec, files, errlog, oklog,
                   db>>

\* lines 246-278: execute_python_code returned for test case i
Suite_Record(k) ==
    /\ loop = k
    /\ F(k).pc = "exec_ret"
    /\ F(k).kind = "suite"
    /\ LET r == TestCaseResult(F(k).i, F(k).tests[F(k).i], F(k).outcome[1]) IN
         frame' = [frame EXCEPT ![k] = [@ EXCEPT !.pc = "suite",
                      !.results = Append(@, r),
                      !.all_passed = AllPassedAfter(@, r),
                      !.i = @ + 1]]
    /\ UNCHANGED <<client, containers, cleanup_task, wake_at, ttl, now, env,
                   phase, loop, nexec, files, errlog, oklog,
                   db>>

\* ------------------------------------------------------------ specification
Next ==
    \/ start_cleanup_task
    \/ cleanup_expired_containers
    \/ shutdown
    \/ Tick
    \/ \E c \in ContainerIds : ProgramExit(c)
    \/ \E k \in CallIds : run_code(k)
    \/ \E k \in CallIds, t \in TimeoutArgs : execute_python_code(k, t)
    \/ \E k \in CallIds, tc \in TestSuites : submit_code(k, tc)
    \/ \E k \in CallIds :
         \/ Exec_Entry(k)
         \/ Exec_TempFile(k)
         \/ Exec_Create(k)
         \/ Exec_Register(k)
         \/ Exec_Start(k)
         \/ Exec_Wait(k)
         \/ Exec_WaitFault(k)
         \/ Exec_Logs(k)
         \/ Exec_LogsAfterFault(k)
         \/ Exec_FinStop(k)
         \/ Exec_FinRemove(k)
         \/ Exec_FinDel(k)
         \/ Exec_FinUnlink(k)
         \/ run_code_return(k)
         \/ Suite_Loop(k)
         \/ Suite_Record(k)
         \/ Respond(k)

Spec == Init /\ [][Next]_vars

\* The code of a running coroutine runs on (a blocked Docker call returns or
\* raises), the clock advances, the lifespan starts the Reaper and the
\* Reaper's timer fires.  Nothing obliges a request to arrive, a wait to
\* fault, a program to end, or the service to shut down.
Progress(k) ==
    \/ Exec_Entry(k)
    \/ Exec_TempFile(k)
    \/ Exec_Create(k)
    \/ Exec_Register(k)
    \/ Exec_Start(k)
    \/ Exec_Wait(k)
    \/ Exec_Logs(k)
    \/ Exec_LogsAfterFault(k)
    \/ Exec_FinStop(k)
    \/ Exec_FinRemove(k)
    \/ Exec_FinDel(k)
    \/ Exec_FinUnlink(k)
    \/ run_code_return(k)
    \/ Suite_Loop(k)
    \/ Suite_Record(k)
    \/ Respond(k)

Fairness ==
    /\ WF_vars(Tick)
    /\ WF_vars(start_cleanup_task)
    /\ WF_vars(cleanup_expired_containers)
    /\ \A k \in CallIds : WF_vars(Progress(k))

\* The liveness claims are checked for the service answering run-code
\* requests (execute_python_code called directly), with the Reaper, the clock,
\* the Docker daemon and shutdown as in Spec.
LiveNext ==
    \/ start_cleanup_task
    \/ cleanup_expired_containers
    \/ shutdown
    \/ Tick
    \/ \E c \in ContainerIds : ProgramExit(c)
    \/ \E k \in CallIds : run_code(k)
    \/ \E k \in CallIds, t \in TimeoutArgs : execute_python_code(k, t)
    \/ \E k \in CallIds :
         \/ Exec_Entry(k)
         \/ Exec_TempFile(k)
         \/ Exec_Create(k)
         \/ Exec_Register(k)
         \/ Exec_Start(k)
         \/ Exec_Wait(k)
         \/ Exec_WaitFault(k)
         \/ Exec_Logs(k)
         \/ Exec_LogsAfterFault(k)
         \/ Exec_FinStop(k)
         \/ Exec_FinRemove(k)
         \/ Exec_FinDel(k)
         \/ Exec_FinUnlink(k)
         \/ run_code_return(k)
         \/ Respond(k)

FairSpec == Init /\ [][LiveNext]_vars /\ Fairness

\* ------------------------------------------------------------ suites alone
\* The service with Docker available and the default TTL answering submit
\* requests only, with test cases that differ from one another.  The requests
\* are served at the instant the service starts: the clock does not move, so
\* no wait times out and no sweep comes due (Spec has both).
SuiteCases ==
    { [input |-> <<"5">>, expected_output |-> Text(<<"1">>)],
      [input |-> <<"7">>, expected_output |-> Num(2)] }

SuiteTests == UNION {[1..n -> SuiteCases] : n \in 0..MaxTests}

SuiteNext ==
    \/ start_cleanup_task
    \/ shutdown
    \/ \E c \in ContainerIds : ProgramExit(c)
    \/ \E k \in CallIds, tc \in SuiteTests : submit_code(k, tc)
    \/ \E k \in CallIds :
         \/ Exec_Entry(k)
         \/ Exec_TempFile(k)
         \/ Exec_Create(k)
         \/ Exec_Register(k)
         \/ Exec_Start(k)
         \/ Exec_Wait(k)
         \/ Exec_WaitFault(k)
         \/ Exec_Logs(k)
         \/ Exec_LogsAfterFault(k)
         \/ Exec_FinStop(k)
         \/ Exec_FinRemove(k)
         \/ Exec_FinDel(k)
         \/ Exec_FinUnlink(k)
         \/ Suite_Loop(k)
         \/ Suite_Record(k)
         \/ Respond(k)

SuiteInit == Init /\ client /\ ttl = CONTAINER_TTL

SuiteSpec == SuiteInit /\ [][SuiteNext]_vars

\* ------------------------------------------------------------ harness
\* The program execute_code_with_tests generates for one test case (lines
\* 211-244), followed inside its container.  Texts are tuples of characters.
Quote == "'"

\* line 217: test_input_raw = '''{test_input}'''.  The input is spliced into
\* the program text unescaped, so Python's lexer ends the literal at the
\* first three quote characters of the input followed by the delimiter.  When
\* those are the delimiter itself the literal's value is the input.  When the
\* input ends with one quote character a lone quote is left over (an
\* unterminated literal: the program does not compile, None); when it ends
\* with two, an empty literal is left over and the value lacks the two
\* quotes.  Any other early end leaves part of the input as program text,
\* which for the inputs followed here does not compile either.
Embed(test_input) ==
    LET y == test_input \o <<Quote, Quote, Quote>>
        ends == {p \in 1..(Len(y) - 2) :
                    y[p] = Quote /\ y[p + 1] = Quote /\ y[p + 2] = Quote}
        p == CHOOSE q \in ends : \A m \in ends : q <= m
        rest == SubSeq(y, p + 3, Len(y))
    IN CASE rest = <<>>             -> Some(SubSeq(y, 1, p - 1))
         [] rest = <<Quote, Quote>> -> Some(SubSeq(y, 1, p - 1))
         [] OTHER                   -> None

\* JSON values: Num and Text as above, and arrays
List(items) == [t |-> "list", items |-> items]

IsDigit(ch) == ch \in {"0", "1", "2", "3", "4", "5", "6", "7", "8", "9"}

DigitVal(ch) ==
    CASE ch = "0" -> 0 [] ch = "1" -> 1 [] ch = "2" -> 2 [] ch = "3" -> 3
      [] ch = "4" -> 4 [] ch = "5" -> 5 [] ch = "6" -> 6 [] ch = "7" -> 7
      [] ch = "8" -> 8 [] OTHER -> 9

\* the index after the digits that start at i (a number that starts with 0
\* is that 0 alone)
RECURSIVE ScanDigits(_, _)
ScanDigits(s, i) ==
    IF i <= Len(s) /\ IsDigit(s[i]) THEN ScanDigits(s, i + 1) ELSE i

RECURSIVE NumVal(_)
NumVal(ds) ==
    IF ds = <<>> THEN 0
    ELSE 10 * NumVal(SubSeq(ds, 1, Len(ds) - 1)) + DigitVal(ds[Len(ds)])

\* the index of the double quote that closes a string opened before i, or 0
RECURSIVE ScanString(_, _)
ScanString(s, i) ==
    IF i > Len(s) THEN 0
    ELSE IF s[i] = "\"" THEN i
    ELSE ScanString(s, i + 1)

ParseFail == [ok |-> FALSE, v |-> Num(0), j |-> 0]

\* json.loads (line 226) for texts made of digits, double-quoted strings
\* without escapes, and arrays, with no white space: the value that starts at
\* index i and the index after it
RECURSIVE ParseValue(_, _)
RECURSIVE ParseItems(_, _, _)
ParseValue(s, i) ==
    IF i > Len(s) THEN ParseFail
    ELSE IF IsDigit(s[i])
      THEN LET j == IF s[i] = "0" THEN i + 1 ELSE ScanDigits(s, i) IN
             [ok |-> TRUE, v |-> Num(NumVal(SubSeq(s, i, j - 1))), j |-> j]
    ELSE IF s[i] = "\""
      THEN LET q == ScanString(s, i + 1) IN
             IF q = 0 THEN ParseFail
             ELSE [ok |-> TRUE, v |-> Text(SubSeq(s, i + 1, q - 1)), j |-> q + 1]
    ELSE IF s[i] = "["
      THEN IF i + 1 <= Len(s) /\ s[i + 1] = "]"
             THEN [ok |-> TRUE, v |-> List(<<>>), j |-> i + 2]
             ELSE ParseItems(s, i + 1, <<>>)
    ELSE ParseFail

ParseItems(s, i, acc) ==
    LET r == ParseValue(s, i) IN
      IF ~r.ok \/ r.j > Len(s) THEN ParseFail
      ELSE IF s[r.j] = "," THEN ParseItems(s, r.j + 1, Append(acc, r.v))
      ELSE IF s[r.j] = "]"
        THEN [ok |-> TRUE, v |-> List(Append(acc, r.v)), j |-> r.j + 1]
      ELSE ParseFail

JsonLoads(s) ==
    LET r == ParseValue(s, 1) IN
      IF r.ok /\ r.j = Len(s) + 1 THEN Some(r.v) ELSE None

\* lines 225-229: json.loads, or the text itself when that raises
ParsedInput(test_input_raw) ==
    IF JsonLoads(test_input_raw) # None
      THEN JsonLoads(test_input_raw)[1]
      ELSE Text(test_input_raw)

\* mutant: every parsed value is passed as one argument
SolutionArgs_Single(parsed_input) == <<parsed_input>>

\* lines 232-237: solution(*parsed_input) for a list, solution(parsed_input)
\* otherwise
SolutionArgs(parsed_input) ==
    IF parsed_input.t = "list" THEN parsed_input.items ELSE <<parsed_input>>

\* the call of solution the generated program makes, None when the program
\* does not compile
HarnessCall(test_input) ==
    IF Embed(test_input) = None THEN None
    ELSE Some(SolutionArgs(ParsedInput(Embed(test_input)[1])))

\* the program of a suite's container runs: it calls solution (which returns
\* or raises) or fails to compile, and ends
Harness_Run(k) ==
    /\ loop = k
    /\ F(k).kind = "suite"
    /\ F(k).pc = "wait"
    /\ env[F(k).container].st = "running"
    /\ LET call == HarnessCall(F(k).tests[F(k).i].input) IN
         \E x \in IF call = None THEN {1} ELSE ExitCodes :
            env' = [env EXCEPT ![F(k).container] =
                       [@ EXCEPT !.st = "exited", !.code = x, !.call = call]]
    /\ UNCHANGED <<client, containers, cleanup_task, wake_at, ttl, now, phase,
                   loop, frame, nexec, files, errlog, oklog,
                   db>>

\* test inputs: the texts of some JSON values, and texts that are not JSON
JsonSample ==
    { Num(2), Num(15), Text(<<"a">>), List(<<>>), List(<<Num(2)>>),
      List(<<Num(2), Num(9)>>), List(<<Text(<<"a">>), Num(7)>>),
      List(<<List(<<Num(2), Num(7), Num(11), Num(15)>>), Num(9)>>) }

NotJson ==
    { <<"a">>, <<"2", "a">>, <<"[", "2", ",">>, <<"[", "2", ",", "]">>,
      <<"[", "2", "]", "]">>, <<"\"", "a">>, <<"0", "2">>, <<>>,
      <<"a", "'", "b">>, <<"'", "a", "'">>, <<"a", "'", "'">> }

RECURSIVE Dump(_)
RECURSIVE DumpItems(_)
Dump(v) ==
    CASE v.t = "int" -> Digits(v.n)
      [] v.t = "str" -> <<"\"">> \o v.s \o <<"\"">>
      [] OTHER       -> <<"[">> \o DumpItems(v.items) \o <<"]">>

DumpItems(items) ==
    IF items = <<>> THEN <<>>
    ELSE IF Len(items) = 1 THEN Dump(items[1])
    ELSE Dump(items[1]) \o <<",">> \o DumpItems(Tail(items))

HarnessInputs == {Dump(v) : v \in JsonSample} \cup NotJson

HarnessFrame(tc) ==
    [IdleFrame EXCEPT !.pc = "wait", !.kind = "suite", !.tests = <<tc>>,
                      !.i = 1, !.timeout = DOCKER_TIMEOUT, !.container_id = 1,
                      !.temp_file = 1, !.container = 1,
                      !.deadline = DOCKER_TIMEOUT, !.waits = 1]

\* a suite of one test case has just started the container of its program
HarnessInit ==
    /\ client = TRUE
    /\ containers = Put(<<>>, 1, RegistryEntry(0, CONTAINER_TTL))
    /\ cleanup_task = "sleeping"
    /\ wake_at = SweepInterval
    /\ ttl = CONTAINER_TTL
    /\ now = 0
    /\ env = [c \in ContainerIds |->
                IF c = 1
                  THEN [st |-> "running", code |-> 0, created |-> 0,
                        cfg |-> Some(CreateArgs(1)), call |-> None,
                        out |-> None]
                  ELSE EnvNone]
    /\ phase = "serving"
    /\ loop = 1
    /\ \E x \in HarnessInputs, e \in Expecteds :
          frame = [k \in CallIds |->
                     IF k = 1
                       THEN HarnessFrame([input |-> x, expected_output |-> e])
                       ELSE IdleFrame]
    /\ nexec = 1
    /\ files = {1}
    /\ errlog = {}
    /\ oklog = {}
    /\ db = EmptyDb

HarnessNext ==
    \E k \in CallIds :
       \/ Harness_Run(k)
       \/ Exec_Wait(k)
       \/ Exec_Logs(k)
       \/ Exec_LogsAfterFault(k)
       \/ Exec_FinStop(k)
       \/ Exec_FinRemove(k)
       \/ Exec_FinDel(k)
       \/ Exec_FinUnlink(k)
       \/ Suite_Record(k)
       \/ Suite_Loop(k)
       \/ Respond(k)

HarnessSpec == HarnessInit /\ [][HarnessNext]_vars

\* ------------------------------------------------------------ program
\* The generated program with the user's code in it (line 220), followed to
\* its end: what the user's code does when the harness calls solution, and
\* what the program writes.
Bool(b) == [t |-> "bool", b |-> b]

\* str(v) for the values solution returns
StrOf(v) ==
    CASE v.t = "bool" -> IF v.b THEN <<"T", "r", "u", "e">>
                                ELSE <<"F", "a", "l", "s", "e">>
      [] v.t = "int"  -> Digits(v.n)
      [] OTHER        -> v.s

LowerChar(ch) ==
    CASE ch = "T" -> "t" [] ch = "F" -> "f" [] ch = "A" -> "a" [] OTHER -> ch

\* str.lower()
Lower(s) == [j \in 1..Len(s) |-> LowerChar(s[j])]

\* mutant: the result is printed as it is
PrintResult_AsIs(result) == StrOf(result) \o <<"\n">>

\* line 240: print(str(result).lower() if isinstance(result, bool) else result)
PrintResult(result) ==
    (IF result.t = "bool" THEN Lower(StrOf(result)) ELSE StrOf(result))
       \o <<"\n">>

\* lines 241-243: the diagnostic on the error stream, then the traceback of
\* the exception raised again
Diagnostic(e) == <<"Error: ">> \o e \o <<"\n", "Traceback", "\n">>

\* what the user's code prints on its own
UserPrints == { <<>>, <<"1", "\n">>, <<"t", "r", "u", "e", "\n">> }

Returns ==
    { Bool(TRUE), Bool(FALSE), Num(1), Num(12), Text(<<"t", "r", "u", "e">>),
      Text(<<"T", "r", "u", "e">>), Text(<<>>) }

\* solution returns a value; solution raises an exception (an Exception, which
\* line 241 catches); the user's code ends the process itself with sys.exit
\* (SystemExit is no Exception: line 241 lets it through)
Behaviours ==
    [kind : {"return"}, printed : UserPrints, value : Returns]
      \cup [kind : {"raise"}, printed : UserPrints, e : {<<"b", "o", "o", "m">>}]
      \cup [kind : {"exit"}, printed : UserPrints, code : ExitCodes]

\* mutant: the except branch of the harness does not raise again
ProgramCode_Swallow(b) == IF b.kind = "exit" THEN b.code ELSE 0

\* the exit status of the program
ProgramCode(b) ==
    CASE b.kind = "return" -> 0
      [] b.kind = "raise"  -> 1
      [] OTHER             -> b.code

\* the two streams as container.logs returns them; their order is the
\* daemon's
ProgramLogs(b) ==
    CASE b.kind = "return" -> {b.printed \o PrintResult(b.value)}
      [] b.kind = "raise"  -> {b.printed \o Diagnostic(b.e),
                               Diagnostic(b.e) \o b.printed}
      [] OTHER             -> {b.printed}

\* the program of a suite's container runs to its end
Program_Run(k) ==
    /\ loop = k
    /\ F(k).kind = "suite"
    /\ F(k).pc = "wait"
    /\ env[F(k).container].st = "running"
    /\ HarnessCall(F(k).tests[F(k).i].input) # None
    /\ \E b \in Behaviours : \E logs \in ProgramLogs(b) :
          /\ env' = [env EXCEPT ![F(k).container] =
                        [@ EXCEPT !.st = "exited", !.code = ProgramCode(b),
                                  !.call = HarnessCall(F(k).tests[F(k).i].input),
                                  !.out = Some(logs)]]
          /\ frame' = [frame EXCEPT ![k] = [@ EXCEPT !.ran = Some(b)]]
    /\ UNCHANGED <<client, containers, cleanup_task, wake_at, ttl, now, phase,
                   loop, nexec, files, errlog, oklog,
                   db>>

ProgramExpecteds ==
    { Text(<<"t", "r", "u", "e">>), Text(<<"T", "r", "u", "e">>),
      Text(<<"f", "a", "l", "s", "e", " ">>), Text(<<"1">>), Num(12) }

\* a suite of one test case has just started the container of its program
ProgramInit ==
    /\ client = TRUE
    /\ containers = Put(<<>>, 1, RegistryEntry(0, CONTAINER_TTL))
    /\ cleanup_task = "sleeping"
    /\ wake_at = SweepInterval
    /\ ttl = CONTAINER_TTL
    /\ now = 0
    /\ env = [c \in ContainerIds |->
                IF c = 1
                  THEN [st |-> "running", code |-> 0, created |-> 0,
                        cfg |-> Some(CreateArgs(1)), call |-> None,
                        out |-> None]
                  ELSE EnvNone]
    /\ phase = "serving"
    /\ loop = 1
    /\ \E x \in Inputs, e \in ProgramExpecteds :
          frame = [k \in CallIds |->
                     IF k = 1
                       THEN HarnessFrame([input |-> x, expected_output |-> e])
                       ELSE IdleFrame]
    /\ nexec = 1
    /\ files = {1}
    /\ errlog = {}
    /\ oklog = {}
    /\ db = EmptyDb

ProgramNext ==
    \E k \in CallIds :
       \/ Program_Run(k)
       \/ Exec_Wait(k)
       \/ Exec_WaitFault(k)
       \/ Exec_Logs(k)
       \/ Exec_LogsAfterFault(k)
       \/ Exec_FinStop(k)
       \/ Exec_FinRemove(k)
       \/ Exec_FinDel(k)
       \/ Exec_FinUnlink(k)
       \/ Suite_Record(k)
       \/ Suite_Loop(k)
       \/ Respond(k)

ProgramSpec == ProgramInit /\ [][ProgramNext]_vars

\* ------------------------------------------------------------ code routes
\* routes/code.py: get_code_question and submit_code, with the question
\* documents of qa_gen_db, the evaluation by the language model and the
\* collections the routes write to.  A route is suspended (and the loop is
\* free) while it awaits the database or the language model; the call of
\* execute_code_with_tests holds the loop as above.
Visible5 == [input |-> <<"5">>, expected_output |-> Text(<<"1">>)]
Hidden7  == [input |-> <<"7">>, expected_output |-> Num(2), is_hidden |-> TRUE]
Shown9   == [input |-> <<"9">>, expected_output |-> Text(<<"2">>),
             is_hidden |-> FALSE]

\* the documents of dsa_questions, by _id
Questions ==
    [q \in {"q1", "q2", "q3", "q4"} |->
       [_id |-> q,
        test_cases |-> CASE q = "q1" -> <<Visible5, Hidden7>>
                         [] q = "q2" -> <<Hidden7>>
                         [] q = "q3" -> <<>>
                         [] OTHER    -> <<Shown9, Hidden7, Visible5>>]]

\* question ids a request may carry; "q0" is the id of no document
RequestIds == DOMAIN Questions \cup {"q0"}

\* tc.get("is_hidden", False)
IsHidden(tc) == "is_hidden" \in DOMAIN tc /\ tc.is_hidden

\* mutant: every test case is shown
VisibleTestCases_All(test_cases) == test_cases

\* lines 44-46: [tc for tc in test_cases if not tc.get("is_hidden", False)]
VisibleTestCases(test_cases) ==
    SelectSeq(test_cases, LAMBDA tc : ~IsHidden(tc))

HttpError(status_code) == [status_code |-> status_code]

\* lines 49-60: the response of get-question (the fields that depend on the
\* test cases, and the id)
GetQuestionResponse(question) ==
    [question_id |-> question._id,
     test_cases_count |-> Len(question.test_cases),
     visible_test_cases |-> VisibleTestCases(question.test_cases)]

\* the requests the routes are serving
InFlight == Cardinality({j \in CallIds : F(j).pc # "idle"})

\* lines 16-22: a get-question request arrives; one for another mode is
\* refused at once, one for code mode awaits fetch_question
get_code_question(k, mode) ==
    /\ Accepts(k)
    /\ InFlight < MaxInFlight
    /\ IF mode # "code"
         THEN /\ frame' = [frame EXCEPT ![k] = [IdleFrame EXCEPT
                    !.pc = "done", !.kind = "get",
                    !.request = Some([mode |-> mode]),
                    !.ret = Some(HttpError(400))]]
              /\ loop' = k
         ELSE /\ frame' = [frame EXCEPT ![k] = [IdleFrame EXCEPT
                    !.pc = "fetch", !.kind = "get",
                    !.request = Some([mode |-> mode])]]
              /\ UNCHANGED loop
    /\ UNCHANGED <<client, containers, cleanup_task, wake_at, ttl, now, env,
                   phase, nexec, files, errlog, oklog, db>>

\* lines 26-68: fetch_question returns one of the matching documents
\* (random.choice) or None, or raises
Get_Fetched(k) ==
    /\ loop = 0
    /\ F(k).pc = "fetch"
    /\ \/ \E q \in DOMAIN Questions :
            frame' = [frame EXCEPT ![k] = [@ EXCEPT !.pc = "done",
                         !.question = Some(Questions[q]),
                         !.ret = Some(GetQuestionResponse(Questions[q]))]]
       \/ frame' = [frame EXCEPT ![k] = [@ EXCEPT !.pc = "done",
                                          !.ret = Some(HttpError(404))]]
       \/ frame' = [frame EXCEPT ![k] = [@ EXCEPT !.pc = "done",
                                          !.ret = Some(HttpError(500))]]
    /\ loop' = k
    /\ UNCHANGED <<client, containers, cleanup_task, wake_at, ttl, now, env,
                   phase, nexec, files, errlog, oklog, db>>

\* what evaluate_code_output returns: the language model's JSON, whose
\* is_correct and score are the model's own
Evaluations == [is_correct : BOOLEAN, score : {0, 100}]

\* lines 72-76: a submit-code request arrives and awaits get_question_by_id
Submit_Request(k, question_id) ==
    /\ Accepts(k)
    /\ InFlight < MaxInFlight
    /\ Len(db.code_submissions) < MaxSubmissions
    /\ frame' = [frame EXCEPT ![k] = [IdleFrame EXCEPT
           !.pc = "find", !.kind = "submit",
           !.request = Some([question_id |-> question_id])]]
    /\ UNCHANGED <<client, containers, cleanup_task, wake_at, ttl, now, env,
                   phase, loop, nexec, files, errlog, oklog, db>>

\* lines 76-91: the question is found or not; with a question the route
\* calls execute_code_with_tests on its test cases
Submit_Found(k) ==
    /\ loop = 0
    /\ F(k).pc = "find"
    /\ LET id == F(k).request[1].question_id IN
         IF id \in DOMAIN Questions
           THEN /\ nexec + Len(Questions[id].test_cases) <= MaxExecs
                /\ frame' = [frame EXCEPT ![k] = [@ EXCEPT
                      !.pc = "suite", !.kind = "suite",
                      !.question = Some(Questions[id]),
                      !.tests = Questions[id].test_cases, !.i = 1]]
           ELSE frame' = [frame EXCEPT ![k] = [@ EXCEPT
                      !.pc = "done", !.ret = Some(HttpError(404))]]
    /\ loop' = k
    /\ UNCHANGED <<client, containers, cleanup_task, wake_at, ttl, now, env,
                   phase, nexec, files, errlog, oklog, db>>

\* lines 94-99: execute_code_with_tests returned; the route awaits the
\* evaluation
Submit_Evaluate(k) ==
    /\ loop = k
    /\ F(k).pc = "done"
    /\ F(k).kind = "suite"
    /\ F(k).question # None
    /\ frame' = [frame EXCEPT ![k] = [@ EXCEPT !.pc = "evaluate",
                                        !.kind = "submit"]]
    /\ loop' = 0
    /\ UNCHANGED <<client, containers, cleanup_task, wake_at, ttl, now, env,
                   phase, nexec, files, errlog, oklog, db>>

\* uuid.uuid4 (line 102): an id no submission has
FreshSubmissionId ==
    LET used == {db.code_submissions[j].submission_id :
                    j \in 1..Len(db.code_submissions)}
                  \cup {F(j).submission_id : j \in CallIds}
    IN 1 + CHOOSE m \in used \cup {0} : \A u \in used \cup {0} : u <= m

\* lines 103-114
SubmissionRecord(submission_id, question, execution_result, evaluation) ==
    [submission_id |-> submission_id,
     question_id |-> question._id,
     execution_result |-> execution_result,
     is_correct |-> evaluation.is_correct,
     score |-> evaluation.score]

\* lines 120-132
Summary(question, execution_result) ==
    [mode |-> "code",
     question_id |-> question._id,
     correct_answer |-> None,
     is_correct |-> FALSE,
     test_results |-> execution_result.test_results]

\* lines 135-148
SubmitResponse(submission_id, execution_result, evaluation) ==
    [submission_id |-> submission_id,
     is_correct |-> evaluation.is_correct,
     score |-> evaluation.score,
     execution_result |->
        [success |-> execution_result.success,
         total_tests |-> execution_result.total_tests,
         passed_tests |-> execution_result.passed_tests,
         test_results |-> execution_result.test_results]]

\* lines 94-116: the evaluation arrives (or the call, or the parsing of its
\* answer, raises); the route builds the submission record and awaits its
\* insertion
Submit_Evaluated(k) ==
    /\ loop = 0
    /\ F(k).pc = "evaluate"
    /\ \/ \E ev \in Evaluations :
            frame' = [frame EXCEPT ![k] = [@ EXCEPT !.pc = "insert",
                         !.evaluation = Some(ev),
                         !.submission_id = FreshSubmissionId]]
       \/ frame' = [frame EXCEPT ![k] = [@ EXCEPT !.pc = "failed"]]
    /\ UNCHANGED <<client, containers, cleanup_task, wake_at, ttl, now, env,
                   phase, loop, nexec, files, errlog, oklog, db>>

\* line 119: "if not evaluation["is_correct"]"
NeedsSummary(evaluation) == ~evaluation.is_correct

\* lines 116-133: the submission record is in code_submissions; a wrong
\* attempt goes on to its summary, which the route awaits
Submit_Inserted(k) ==
    /\ loop = 0
    /\ F(k).pc = "insert"
    /\ \/ /\ db' = [db EXCEPT !.code_submissions = Append(@,
                       SubmissionRecord(F(k).submission_id, F(k).question[1],
                                        F(k).ret[1], F(k).evaluation[1]))]
          /\ frame' = [frame EXCEPT ![k] = [@ EXCEPT !.pc =
                          IF NeedsSummary(F(k).evaluation[1])
                            THEN "summary" ELSE "return"]]
       \/ /\ frame' = [frame EXCEPT ![k] = [@ EXCEPT !.pc = "failed"]]
          /\ UNCHANGED db
    /\ UNCHANGED <<client, containers, cleanup_task, wake_at, ttl, now, env,
                   phase, loop, nexec, files, errlog, oklog>>

\* line 133: the summary is in user_attempt_summaries
Submit_Summarized(k) ==
    /\ loop = 0
    /\ F(k).pc = "summary"
    /\ \/ /\ db' = [db EXCEPT !.user_attempt_summaries = Append(@,
                       Summary(F(k).question[1], F(k).ret[1]))]
          /\ frame' = [frame EXCEPT ![k] = [@ EXCEPT !.pc = "return"]]
       \/ /\ frame' = [frame EXCEPT ![k] = [@ EXCEPT !.pc = "failed"]]
          /\ UNCHANGED db
    /\ UNCHANGED <<client, containers, cleanup_task, wake_at, ttl, now, env,
                   phase, loop, nexec, files, errlog, oklog>>

\* lines 135-156: the response, or the HTTP 500 of the except branch
Submit_Return(k) ==
    /\ loop = 0
    /\ F(k).pc \in {"return", "failed"}
    /\ frame' = [frame EXCEPT ![k] = [@ EXCEPT !.pc = "done",
           !.ret = IF F(k).pc = "failed"
                     THEN Some(HttpError(500))
                     ELSE Some(SubmitResponse(F(k).submission_id, F(k).ret[1],
                                              F(k).evaluation[1]))]]
    /\ loop' = k
    /\ UNCHANGED <<client, containers, cleanup_task, wake_at, ttl, now, env,
                   phase, nexec, files, errlog, oklog, db>>

\* the response of a route is sent
Route_Respond(k) == F(k).kind \in {"get", "submit"} /\ Respond(k)

RouteModes == {"code", "apti"}

RouteNext ==
    \/ start_cleanup_task
    \/ \E c \in ContainerIds : ProgramExit(c)
    \/ \E k \in CallIds, mode \in RouteModes : get_code_question(k, mode)
    \/ \E k \in CallIds, id \in RequestIds : Submit_Request(k, id)
    \/ \E k \in CallIds :
         \/ Get_Fetched(k)
         \/ Submit_Found(k)
         \/ Suite_Loop(k)
         \/ Exec_Entry(k)
         \/ Exec_TempFile(k)
         \/ Exec_Create(k)
         \/ Exec_Register(k)
         \/ Exec_Start(k)
         \/ Exec_Wait(k)
         \/ Exec_WaitFault(k)
         \/ Exec_Logs(k)
         \/ Exec_LogsAfterFault(k)
         \/ Exec_FinStop(k)
         \/ Exec_FinRemove(k)
         \/ Exec_FinDel(k)
         \/ Exec_FinUnlink(k)
         \/ Suite_Record(k)
         \/ Submit_Evaluate(k)
         \/ Submit_Evaluated(k)
         \/ Submit_Inserted(k)
         \/ Submit_Summarized(k)
         \/ Submit_Return(k)
         \/ Route_Respond(k)

RouteSpec == SuiteInit /\ [][RouteNext]_vars

\* ------------------------------------------------------------ recording
\* The recording of one test case (lines 246-278) over a wider range of
\* outputs and expected values: execute_python_code has just returned for
\* the only test case of a suite, its container ended at once and is removed.
CompareOutputs ==
    { <<"1", "\n">>, <<" ", "1">>, <<"1", "2", "\n">>, <<"1", " ", "2", "\n">>,
      <<"\n">> }

CompareExpecteds ==
    { Text(<<"1">>), Text(<<"1", " ">>), Text(<<"1", "\n">>),
      Text(<<"\t", "1", "2">>), Text(<<"1", " ", "2">>), Text(<<>>),
      Num(1), Num(12) }

CompareOutcomes ==
    {ExitOutcome(c, logs, 0) : c \in ExitCodes, logs \in CompareOutputs}
      \cup {FaultOutcome(logs, StrFault, 0) :
               logs \in {Some(o) : o \in CompareOutputs} \cup {None}}

CompareFrame(tc, o) ==
    [IdleFrame EXCEPT !.pc = "exec_ret", !.kind = "suite", !.tests = <<tc>>,
                      !.i = 1, !.outcome = Some(o), !.timeout = DOCKER_TIMEOUT,
                      !.container_id = 1, !.temp_file = 1, !.container = 1,
                      !.deadline = DOCKER_TIMEOUT, !.waits = 1,
                      !.result = IF o.error = Some(ErrExit(1)) THEN 1 ELSE 0,
                      !.exc = IF o.error = Some(ErrTimeoutOrError(StrFault))
                                THEN StrFault ELSE <<>>,
                      !.did_stop = TRUE, !.did_remove = TRUE]

CompareInit ==
    /\ client = TRUE
    /\ containers = <<>>
    /\ cleanup_task = "sleeping"
    /\ wake_at = SweepInterval
    /\ ttl = CONTAINER_TTL
    /\ now = 0
    /\ env = [c \in ContainerIds |->
                IF c = 1 THEN DockerRemove(EnvNone) ELSE EnvNone]
    /\ phase = "serving"
    /\ loop = 1
    /\ \E e \in CompareExpecteds, o \in CompareOutcomes, x \in Inputs :
          frame = [k \in CallIds |->
                     IF k = 1
                       THEN CompareFrame([input |-> x, expected_output |-> e], o)
                       ELSE IdleFrame]
    /\ nexec = 1
    /\ files = {}
    /\ errlog = {}
    /\ oklog = {}
    /\ db = EmptyDb

CompareNext ==
    \E k \in CallIds :
       \/ Suite_Record(k)
       \/ Suite_Loop(k)
       \/ Respond(k)

CompareSpec == CompareInit /\ [][CompareNext]_vars

\* ------------------------------------------------------------ claims
InExec(k) == F(k).pc \in {"tempfile", "create", "register", "start", "wait",
                           "logs", "logs_err", "fin_stop", "fin_remove",
                           "fin_del", "fin_unlink"}

Returned(k) == F(k).pc = "exec_ret"

Mentions(text, word) == \E j \in 1..Len(text) : text[j] = word

\* C1: when execute_python_code returns, the registry has exactly the keys it
\* had when the call was entered, on every exit path.
C1_RegistryRestored ==
    \A k \in CallIds : Returned(k) => DOMAIN containers = F(k).before

\* C3: a container that still exists has not outlived its registry expiry by
\* more than one sweep interval (stated for the containers the registry
\* still tracks, whose expiry the program knows).
C3_NeverOutlivesExpiry ==
    \A c \in DOMAIN containers :
       Exists(env[c]) => now <= containers[c].expires_at + SweepInterval

\* C4: every outcome of execute_python_code, and every run-code response made
\* of one, has error null when success is true and error non-null when
\* success is false.
SuccessErrorAgree(o) ==
    /\ o.success => o.error = None
    /\ ~o.success => o.error # None

\* C4: in every outcome and every run-code response, error is null exactly
\* when success is true.
C4_SuccessIffNoError ==
    \A k \in CallIds :
       /\ F(k).outcome # None => SuccessErrorAgree(F(k).outcome[1])
       /\ (F(k).kind = "run" /\ F(k).pc = "done") => SuccessErrorAgree(F(k).ret[1])

C4_Witness ==
    \E k \in CallIds :
       /\ F(k).kind = "run" /\ F(k).pc = "done"
       /\ ~F(k).ret[1].success
       /\ F(k).ret[1].error = Some(ErrExit(1))

\* C5: the suite result counts the passed entries, succeeds exactly when all
\* test cases passed, and for no test cases has total 0 and success true.
PassedEntries(results) == {j \in 1..Len(results) : results[j].passed}

\* C5: passed_tests counts the passed results, success holds exactly when all
\* passed, an empty suite succeeds with total 0.
C5_SuiteTotals ==
    \A k \in CallIds :
       (F(k).kind = "suite" /\ F(k).pc = "done") =>
          LET r == F(k).ret[1] IN
            /\ r.passed_tests = Cardinality(PassedEntries(r.test_results))
            /\ r.success = (r.passed_tests = r.total_tests)
            /\ F(k).tests = <<>> => (r.total_tests = 0 /\ r.success)

C5_Witness ==
    \E k \in CallIds :
       /\ F(k).kind = "suite" /\ F(k).pc = "done"
       /\ F(k).ret[1].total_tests = 2
       /\ F(k).ret[1].passed_tests = 1
       /\ \E j \in 1..2 : "error" \in DOMAIN F(k).ret[1].test_results[j]

\* C6 as stated: with the client disabled every call returns the outcome
\* {success false, error "execution unavailable", output null, time 0}.
ErrExecutionUnavailable == <<"execution", "unavailable">>

C6_DisabledState ==
    ~client =>
       /\ \A k \in CallIds :
            /\ ~InExec(k)
            /\ Returned(k) =>
                 /\ F(k).outcome = Some(Outcome(FALSE, None, Some(ErrUnavailable), 0))
                 /\ DOMAIN containers = F(k).before
       /\ \A c \in ContainerIds : env[c].st = "none"
       /\ containers = <<>>
       /\ nexec = 0

C8_CleanupComplete ==
    \A k \in CallIds :
       (Returned(k) /\ F(k).container # 0) =>
          /\ F(k).did_stop
          /\ F(k).did_remove
          /\ F(k).container \notin DOMAIN containers

\* C9 as stated: a sweep removes and destroys every TTL-0 handle it finds in
\* the registry, also when its clock reading equals the registration time.
ZeroTTL(c) == containers[c].expires_at = containers[c].created_at

\* C9 as stated: every sweep removes and destroys every TTL-0 handle it
\* finds.
C9_AsStated ==
    [][cleanup_expired_containers =>
         \A c \in DOMAIN containers :
            ZeroTTL(c) => (c \notin DOMAIN containers' /\ env'[c].st = "removed")]_vars

\* C9 amended: a sweep whose clock reading is later than the registration
\* time of a TTL-0 handle removes the handle from the registry and destroys
\* its container unless a Docker call of the Reaper raises (then the error is
\* logged); a sweep whose clock reading equals the registration time leaves
\* the handle and its container as they are.
C9_ZeroTTLSweep ==
    [][cleanup_expired_containers =>
         \A c \in DOMAIN containers :
            ZeroTTL(c) =>
               /\ now > containers[c].created_at =>
                    /\ c \notin DOMAIN containers'
                    /\ env'[c].st = "removed" \/ c \in errlog'
               /\ now = containers[c].created_at =>
                    /\ c \in DOMAIN containers'
                    /\ env'[c] = env[c]]_vars

C9_Witness ==
    /\ ttl = 0
    /\ phase = "serving"
    /\ \E c \in oklog : env[c].st = "removed"

\* C10: a sweep neither removes nor destroys a handle whose expiry lies in
\* the future; such a handle leaves the registry only through the cleanup of
\* its own execution or through shutdown.
C10_FutureExpirySurvives ==
    [][\A c \in DOMAIN containers :
          containers[c].expires_at > now =>
             /\ cleanup_expired_containers =>
                  /\ c \in DOMAIN containers'
                  /\ containers'[c] = containers[c]
                  /\ env'[c] = env[c]
             /\ c \notin DOMAIN containers' =>
                  \/ shutdown
                  \/ \E k \in CallIds : F(k).container = c /\ Exec_FinDel(k)]_vars

C10_Witness ==
    /\ loop = 0
    /\ wake_at = now + SweepInterval
    /\ \E c \in DOMAIN containers :
          containers[c].created_at < now /\ now < containers[c].expires_at

C7_TimeoutState ==
    \A k \in CallIds :
       /\ F(k).pc = "wait" => now <= F(k).start_time + F(k).timeout
       /\ F(k).timed_out =>
            /\ F(k).pc \notin {"wait", "logs"}
            /\ F(k).waits = 1
       /\ (F(k).timed_out /\ Returned(k)) =>
            /\ F(k).did_stop
            /\ ~F(k).outcome[1].success
            /\ Mentions(F(k).outcome[1].error[1], "timeout")

\* C7: no wait outlasts the effective timeout, a timed-out call returns a
\* failure that mentions the timeout, and every wait ends.
C7_TimeoutEnforced ==
    /\ [](C7_TimeoutState)
    /\ \A k \in CallIds :
          /\ (F(k).pc = "wait") ~> Returned(k)
          /\ (F(k).timed_out /\ InExec(k)) ~> (F(k).timed_out /\ Returned(k))

C7_Witness ==
    \E k \in CallIds :
       /\ F(k).timed_out /\ Returned(k)
       /\ F(k).timeout = 2 * DOCKER_TIMEOUT
       /\ F(k).outcome[1].execution_time = 2 * DOCKER_TIMEOUT

\* C11: a sweep removes every expired handle from the registry whether its
\* destroy succeeded or raised, with one log line for each handle (a failure
\* on one does not stop the others); a handle whose destroy failed is out of
\* the registry for good, so no later sweep touches its container again.
C11_DestroyFailed == errlog \ oklog

C11_FailedStayOut == \A c \in C11_DestroyFailed : c \notin DOMAIN containers

\* C11: a sweep drops every expired handle from the registry, also one whose
\* destroy failed, and logs the failure.
C11_SweepDropsExpired ==
    /\ [](C11_FailedStayOut)
    /\ [][cleanup_expired_containers =>
            /\ \A c \in DOMAIN containers :
                  now > containers[c].expires_at =>
                     /\ c \notin DOMAIN containers'
                     /\ c \in errlog' \cup oklog'
            /\ \A c \in C11_DestroyFailed : env'[c] = env[c]
            /\ phase' = "serving" /\ cleanup_task' = "sleeping"]_vars

C11_Witness ==
    /\ phase = "serving"
    /\ now = SweepInterval /\ wake_at = now + SweepInterval
    /\ containers = <<>>
    /\ \E c, d \in ContainerIds :
          /\ c \in errlog /\ Exists(env[c])
          /\ d \in oklog /\ env[d].st = "removed"

\* C12: destroying a container that is already gone, and unregistering a
\* handle that is not in the registry, are no-ops that do not raise:
\* _remove_container on a container that is gone leaves the daemon as it
\* is, logs the error and lets the sweep or the shutdown run to its end;
\* unregistering handles that are absent leaves the registry unchanged; and
\* when container.stop raises in the cleanup of execute_python_code (as it
\* does for a container that is gone) the cleanup touches neither the daemon
\* nor the registry and goes on to the return.
C12_AbsentUnchanged ==
    \A S \in SUBSET ContainerIds :
       S \cap DOMAIN containers = {} => RegistryAfterRemove(containers, S) = containers

C13_Forward ==
    { <<"none", "created">>, <<"created", "running">>, <<"running", "exited">>,
      <<"created", "removed">>, <<"running", "removed">>, <<"exited", "removed">> }

C13_DestroyedUnused ==
    \A c \in ContainerIds :
       env[c].st = "removed" =>
          \A k \in CallIds :
             F(k).container = c =>
                F(k).pc \notin {"register", "start", "wait", "logs", "logs_err",
                                 "fin_stop", "fin_remove"}

\* C13: a container moves forward only (created, running, exited, removed)
\* and a removed one is never used again.
C13_Lifecycle ==
    /\ [](C13_DestroyedUnused)
    /\ [][\A c \in ContainerIds :
            /\ env'[c].st # env[c].st => <<env[c].st, env'[c].st>> \in C13_Forward
            /\ env[c].st = "removed" => env'[c] = env[c]
            /\ (env[c].st = "removed" /\ c \notin DOMAIN containers) =>
                  c \notin DOMAIN containers'
            /\ (env[c].st # "removed" /\ env'[c].st = "removed") =>
                  \/ cleanup_expired_containers
                  \/ shutdown
                  \/ \E k \in CallIds : F(k).container = c /\ Exec_FinRemove(k)
            /\ (env[c].st = "running" /\ env'[c].st = "exited") =>
                  \/ ProgramExit(c)
                  \/ \E k \in CallIds : F(k).container = c /\ Exec_FinStop(k)
                  \/ cleanup_expired_containers
                  \/ shutdown]_vars

\* a container that ran to its timeout and was left by a failed cleanup has
\* been removed by the Reaper
C13_Witness ==
    /\ phase = "serving"
    /\ \E c \in oklog :
          /\ env[c].st = "removed"
          /\ c \notin DOMAIN containers
    /\ \E c \in ContainerIds : env[c].st = "removed" /\ c \notin oklog \cup errlog

\* C14: shutdown cancels the Reaper task, calls _remove_container for every
\* handle the registry held when it began (each one ends in a log line) and
\* leaves the registry empty; once the service has stopped no sweep runs.
C14_Stopped ==
    phase = "stopped" => (containers = <<>> /\ cleanup_task # "sleeping")

\* C14: shutdown cancels the Reaper, runs _remove_container on every
\* registered handle and leaves the registry empty.
C14_ShutdownCleansUp ==
    /\ [](C14_Stopped)
    /\ [][shutdown =>
            /\ cleanup_task = "sleeping" => cleanup_task' = "cancelled"
            /\ \A c \in DOMAIN containers : c \in errlog' \cup oklog'
            /\ containers' = <<>>
            /\ phase' = "stopped"]_vars
    /\ [][phase = "stopped" => ~cleanup_expired_containers]_vars

C14_Witness ==
    /\ phase = "stopped"
    /\ cleanup_task = "cancelled"
    /\ now < SweepInterval
    /\ containers = <<>>
    /\ \E c \in oklog : env[c].st = "removed"
    /\ \E c \in errlog \ oklog : Exists(env[c])

\* C15: a failed outcome for one test case does not end the suite: every
\* test case is executed and recorded in order, whatever the outcomes before
\* it, and the call returns a result holding one entry for each test case.
C15_SuiteState ==
    \A k \in CallIds :
       F(k).kind = "suite" =>
          /\ F(k).pc # "done" => Len(F(k).results) = F(k).i - 1
          /\ F(k).pc = "done" =>
               /\ F(k).ret # None
               /\ Len(F(k).ret[1].test_results) = Len(F(k).tests)
               /\ \A j \in 1..Len(F(k).tests) :
                     F(k).ret[1].test_results[j].test_case = j

\* C15: a failed test case does not end the suite; every test case is
\* executed and recorded.
C15_SuiteRunsOn ==
    /\ [](C15_SuiteState)
    /\ [][\A k \in CallIds :
            /\ (Suite_Loop(k) /\ F(k).i <= Len(F(k).tests)) => frame'[k].pc = "exec"
            /\ Suite_Record(k) =>
                  /\ frame'[k].pc = "suite"
                  /\ Len(frame'[k].results) = F(k).i
                  /\ frame'[k].i = F(k).i + 1]_vars

C15_Witness ==
    \E k \in CallIds :
       /\ F(k).kind = "suite" /\ F(k).pc = "done"
       /\ Len(F(k).tests) = 2
       /\ "error" \in DOMAIN F(k).ret[1].test_results[1]
       /\ F(k).ret[1].test_results[2].passed

\* C16: execute_python_code does not raise: whatever fails after the disabled
\* check, the call reaches its finally block with exactly one outcome, no
\* step of the cleanup (stop, remove, registry deletion, unlink), failed or
\* not, changes that outcome, and the call returns it.
C16_InCleanup(k) ==
    F(k).pc \in {"fin_stop", "fin_remove", "fin_del", "fin_unlink", "exec_ret"}

C16_OutcomeState ==
    \A k \in CallIds :
       /\ C16_InCleanup(k) => F(k).outcome # None
       /\ (InExec(k) /\ ~C16_InCleanup(k)) => F(k).outcome = None

\* C16: execute_python_code always returns an outcome, whatever raises inside
\* it, and its cleanup runs on every path.
C16_NeverRaises ==
    /\ [](C16_OutcomeState)
    /\ [][\A k \in CallIds :
            (C16_InCleanup(k) /\ F(k).pc # "exec_ret") =>
               /\ frame'[k].outcome = F(k).outcome
               /\ C16_InCleanup(k)']_vars
    /\ \A k \in CallIds : (F(k).pc = "exec") ~> Returned(k)

C16_Witness ==
    \E k \in CallIds :
       /\ Returned(k)
       /\ F(k).did_stop /\ ~F(k).did_remove
       /\ F(k).container \in DOMAIN containers
       /\ F(k).outcome[1].success

\* C17 as stated: once the wait has returned an exit status, the outcome is
\* the one that status decides: success with the captured text and no error
\* for 0, failure with the captured text and an error naming the status
\* otherwise.
C17_ByExitStatus(k, o) ==
    /\ o.success = (F(k).result = 0)
    /\ o.output \in {Some(logs) : logs \in Outputs}
    /\ F(k).result = 0 => o.error = None
    /\ F(k).result # 0 =>
         /\ o.error = Some(ErrExit(F(k).result))
         /\ Mentions(o.error[1], CodeStr(F(k).result))

\* C17 as stated: whenever the wait returned, the exit status alone decides
\* the outcome.
C17_AsStated ==
    [][\A k \in CallIds :
         Exec_Logs(k) =>
            /\ frame'[k].outcome # None
            /\ C17_ByExitStatus(k, frame'[k].outcome[1])]_vars

\* C17 amended: once the wait has returned an exit status and container.logs
\* has returned the captured text, the outcome is the one the status
\* decides; when container.logs raises instead, no outcome is made at that
\* point and the inner except takes over.
C17_WaitReturned ==
    \A k \in CallIds :
       F(k).pc = "logs" =>
          /\ now <= F(k).start_time + F(k).timeout
          /\ env[F(k).container].st = "exited"
          /\ F(k).result = env[F(k).container].code

\* C17 amended: when the wait and the logs both return, the exit status alone
\* decides the outcome.
C17_ExitStatusDecides ==
    /\ [](C17_WaitReturned)
    /\ [][\A k \in CallIds :
            Exec_Logs(k) =>
               \/ /\ frame'[k].pc = "fin_stop"
                  /\ frame'[k].outcome # None
                  /\ C17_ByExitStatus(k, frame'[k].outcome[1])
                  /\ frame'[k].outcome[1].execution_time = Elapsed(F(k))
               \/ /\ frame'[k].pc = "logs_err"
                  /\ frame'[k].outcome = None]_vars

C17_Witness ==
    \E k \in CallIds :
       /\ Returned(k)
       /\ F(k).timeout = 2 * DOCKER_TIMEOUT
       /\ F(k).outcome[1] = Outcome(TRUE, Some(<<"1", "\n">>), None, DOCKER_TIMEOUT)

\* C18: after a timeout or a fault of the wait, the output is asked for once
\* more, in one attempt; whether it comes (output is the text) or not
\* (output is null), the outcome is a failure whose error carries the text
\* of the fault, and the cleanup follows: stop is invoked on the container
\* before the call returns.
C18_FaultState ==
    \A k \in CallIds :
       /\ F(k).pc = "logs_err" =>
            /\ F(k).outcome = None
            /\ F(k).exc \in {StrTimeout, StrFault}
            /\ F(k).timed_out => F(k).exc = StrTimeout
       /\ (Returned(k) /\ F(k).container # 0) => F(k).did_stop

\* C18: a wait that raises gives a failed outcome with the "Execution timeout
\* or error" text and the logs if they can be read.
C18_FaultOutcome ==
    /\ [](C18_FaultState)
    /\ [][\A k \in CallIds :
            /\ (Exec_WaitFault(k) \/ (Exec_Wait(k) /\ frame'[k].timed_out)) =>
                  frame'[k].pc = "logs_err"
            /\ Exec_LogsAfterFault(k) =>
                  /\ frame'[k].pc = "fin_stop"
                  /\ frame'[k].outcome # None
                  /\ LET o == frame'[k].outcome[1] IN
                       /\ ~o.success
                       /\ o.output \in {Some(logs) : logs \in Outputs} \cup {None}
                       /\ o.error = Some(ErrTimeoutOrError(F(k).exc))
                       /\ o.execution_time = Elapsed(F(k))]_vars

C18_Witness ==
    \E k \in CallIds :
       /\ Returned(k)
       /\ F(k).timed_out
       /\ F(k).outcome[1].output = None
       /\ F(k).outcome[1].error = Some(ErrTimeoutOrError(StrTimeout))
       /\ F(k).did_stop /\ F(k).did_remove

\* C19: for a test case whose outcome has success true, passed is true
\* exactly when the captured output and the text of the expected value,
\* each without its leading and trailing white space, are the same text,
\* character for character; actual and expected hold these trimmed texts.
C19_TrimAt(s, i, j) ==
    /\ j >= i - 1
    /\ \A m \in 1..(i - 1) : IsSpace(s[m])
    /\ \A m \in (j + 1)..Len(s) : IsSpace(s[m])
    /\ j >= i => (~IsSpace(s[i]) /\ ~IsSpace(s[j]))

C19_Trims(s) ==
    {SubSeq(s, i, j) : <<i, j>> \in
        {p \in (1..(Len(s) + 1)) \X (0..Len(s)) : C19_TrimAt(s, p[1], p[2])}}

C19_LastResult(k) == frame'[k].results[Len(frame'[k].results)]

\* C19: passed holds exactly when the trimmed output equals the trimmed text
\* of the expected value.
C19_PassedIffEqual ==
    [][\A k \in CallIds :
         (Suite_Record(k) /\ F(k).outcome[1].success) =>
            LET r == C19_LastResult(k)
                actual == C19_Trims(F(k).outcome[1].output[1])
                expected == C19_Trims(PyStr(F(k).tests[F(k).i].expected_output))
            IN /\ r.passed = (actual \cap expected # {})
               /\ actual = {r.actual}
               /\ expected = {r.expected}
               /\ "error" \notin DOMAIN r]_vars

C19_Witness ==
    \E k \in CallIds :
       /\ F(k).kind = "suite" /\ F(k).pc = "suite"
       /\ F(k).outcome = Some(Outcome(TRUE, Some(<<"1", "2", "\n">>), None, 0))
       /\ F(k).tests[1].expected_output = Num(12)
       /\ F(k).results[1].passed
       /\ F(k).results[1].actual = <<"1", "2">>

\* C20: for a test case whose outcome has success false, the recorded
\* result has passed false, carries the outcome's error text and its
\* (possibly null) partial output, and holds no compared text: the
\* expected value is recorded as given, also when the partial output
\* equals the expected text; the suite's all_passed becomes false.
C20_FailedNotCompared ==
    [][\A k \in CallIds :
         (Suite_Record(k) /\ ~F(k).outcome[1].success) =>
            LET r == C19_LastResult(k)
                o == F(k).outcome[1]
            IN /\ ~r.passed
               /\ r.error = o.error
               /\ o.error # None
               /\ r.output = o.output
               /\ r.expected = F(k).tests[F(k).i].expected_output
               /\ "actual" \notin DOMAIN r
               /\ ~frame'[k].all_passed]_vars

C20_Witness ==
    \E k \in CallIds :
       /\ F(k).kind = "suite" /\ F(k).pc = "suite"
       /\ F(k).outcome = Some(Outcome(FALSE, Some(<<"1", "\n">>),
                                      Some(ErrExit(1)), 0))
       /\ F(k).tests[1].expected_output = Text(<<"1", "\n">>)
       /\ ~F(k).results[1].passed
       /\ F(k).results[1].output = Some(<<"1", "\n">>)

\* C26: every container the daemon holds was created by execute_python_code
\* with network access disabled, the configured memory ceiling, the
\* configured CPU quota and a read-only mount, whatever the program and the
\* timeout; no program runs in a container created otherwise.
C26_Restricted(a) ==
    /\ a.network_mode = "none"
    /\ a.mem_limit = DOCKER_MEMORY_LIMIT
    /\ a.cpu_quota = DOCKER_CPU_QUOTA
    /\ a.volumes.mode = "ro"

\* C26: every container that exists was created with all four restrictions.
C26_AlwaysRestricted ==
    \A c \in ContainerIds :
       Exists(env[c]) => (env[c].cfg # None /\ C26_Restricted(env[c].cfg[1]))

C26_Witness ==
    \E k \in CallIds :
       /\ F(k).kind = "call" /\ F(k).pc = "wait"
       /\ F(k).timeout = 2 * DOCKER_TIMEOUT
       /\ env[F(k).container].st = "running"
       /\ C26_Restricted(env[F(k).container].cfg[1])

\* C25: a running container can read, through its read-only mount, only the
\* program file written for its own execution: no program file of another
\* execution is readable from inside it.
C25_OnlyOwnProgram ==
    \A k \in CallIds :
       (InExec(k) /\ F(k).container # 0) =>
          Readable(env[F(k).container], files) \subseteq {F(k).temp_file}

\* C21: execute_code_with_tests returns one result per test case:
\* total_tests, the number of test cases and the number of results are
\* equal, and the result at position j (counted from 1) has test_case j and
\* carries the input and the expected value of the j-th test case.
C21_BelongsTo(r, j, tests) ==
    /\ r.test_case = j
    /\ r.input = tests[j].input
    /\ r.expected = IF "error" \in DOMAIN r
                      THEN tests[j].expected_output
                      ELSE Strip(PyStr(tests[j].expected_output))

\* C21: one result per test case, numbered from 1 in input order, each
\* carrying its own test case.
C21_OneResultPerTest ==
    \A k \in CallIds :
       F(k).kind = "suite" =>
          /\ Len(F(k).results) <= Len(F(k).tests)
          /\ \A j \in 1..Len(F(k).results) :
                C21_BelongsTo(F(k).results[j], j, F(k).tests)
          /\ F(k).pc = "done" =>
               /\ F(k).ret[1].total_tests = Len(F(k).tests)
               /\ Len(F(k).ret[1].test_results) = Len(F(k).tests)
               /\ F(k).ret[1].test_results = F(k).results

C21_Witness ==
    \E k \in CallIds :
       /\ F(k).kind = "suite" /\ F(k).pc = "done"
       /\ F(k).ret[1].total_tests = 2
       /\ F(k).tests[1] # F(k).tests[2]
       /\ F(k).ret[1].test_results[1].input = <<"7">>
       /\ F(k).ret[1].test_results[2].input = <<"5">>
       /\ F(k).ret[1].test_results[2].passed

\* C22: within one execute_code_with_tests call the test cases run in input
\* order and one at a time: test case i is executed when exactly i-1 results
\* are recorded, and when the suite goes on to the next test case the
\* container of the previous one is no longer running, so the suite never
\* has two of its containers running at once.
C22_InOrder ==
    \A k \in CallIds :
       F(k).kind = "suite" => Len(F(k).results) = F(k).i - 1

\* C22: test cases run in order, and the previous container is no longer
\* running when the next test case is executed.
C22_OneAtATime ==
    [](C22_InOrder)
      /\ [][\A k \in CallIds :
              (Exec_Entry(k) /\ F(k).kind = "suite" /\ F(k).container # 0) =>
                 env[F(k).container].st # "running"]_vars

\* C23: a sweep's scan of the registry is never disturbed by an execution:
\* a sweep runs only while no execute_python_code call is in flight, so no
\* registration (line 127) or deletion (line 189) falls into it; the
\* registry changes during a sweep only by the sweep's own removals of the
\* expired handles, and the Reaper's task survives the sweep.
C23_SweepAlone ==
    /\ \A k \in CallIds : F(k).pc = "idle"
    /\ DOMAIN containers' = (DOMAIN containers) \ ExpiredIds(containers, now)
    /\ \A c \in DOMAIN containers' : containers'[c] = containers[c]
    /\ frame' = frame
    /\ cleanup_task' = "sleeping"

C23_ExecAlone(k) ==
    /\ loop = k
    /\ UNCHANGED <<cleanup_task, wake_at, errlog, oklog>>
    /\ \A c \in DOMAIN containers :
          c # F(k).container => (c \in DOMAIN containers'
                                   /\ containers'[c] = containers[c])

\* C23: a sweep and an execution never change the registry under one another.
C23_ScanUndisturbed ==
    [][/\ cleanup_expired_containers => C23_SweepAlone
       /\ \A k \in CallIds :
             (Exec_Register(k) \/ Exec_FinDel(k)) => C23_ExecAlone(k)]_vars

C23_Witness ==
    /\ phase = "serving"
    /\ errlog \cup oklog # {}
    /\ \E k \in CallIds :
          /\ F(k).pc = "start"
          /\ F(k).container \in DOMAIN containers
          /\ F(k).container \notin F(k).before

\* C24: the Reaper and the executions run concurrently.  While a call is
\* between starting its container and the end of its wait, a sweep that has
\* come due can take place; and while one call waits on its container,
\* another request that arrives can be taken up, so that two calls wait on
\* their own containers at the same time.
C24_SweepDue ==
    phase = "serving" /\ cleanup_task = "sleeping" /\ now >= wake_at

C24_RequestDue ==
    /\ phase = "serving" /\ now <= MaxStart /\ nexec + 1 <= MaxExecs
    /\ \E j \in CallIds : F(j).pc = "idle"

\* C24: while a call waits, a sweep that is due and a request that arrives
\* can both be served.
C24_Concurrent ==
    \A k \in CallIds :
       F(k).pc = "wait" =>
          /\ C24_SweepDue => ENABLED cleanup_expired_containers
          /\ C24_RequestDue => ENABLED (\E j \in CallIds : run_code(j))

\* what holds instead: no sweep takes place while a call is in flight, and
\* at most one call is in flight at any time
C24_Serialized ==
    [](Cardinality({k \in CallIds : F(k).pc # "idle"}) <= 1)
      /\ [][cleanup_expired_containers => \A k \in CallIds : F(k).pc = "idle"]_vars

\* a sweep came due while a call was waiting, and a second request had room
C24_Held ==
    \E k \in CallIds :
       F(k).pc = "wait" /\ C24_SweepDue /\ C24_RequestDue

\* C27: no two executions share a container.  A call creates at most one
\* container, and a new one (never an identifier the daemon has used before);
\* the container runs the program file of that call; while the call runs it
\* acts on no other container; and the registry key it adds is the key of
\* its own container, which was not in the registry before.
C27_OwnProgram ==
    \A k \in CallIds :
       (InExec(k) /\ F(k).container # 0 /\ Exists(env[F(k).container])) =>
          env[F(k).container].cfg = Some(CreateArgs(F(k).temp_file))

C27_CreatesOneNew(k) ==
    frame'[k].container # F(k).container =>
       \/ frame'[k].container = 0
       \/ /\ F(k).pc = "create" /\ F(k).container = 0
          /\ env[frame'[k].container].st = "none"
          /\ env'[frame'[k].container].st = "created"

C27_ActsOnOwn(k) ==
    loop = k =>
       /\ \A c \in ContainerIds :
             (env'[c] # env[c] /\ c # frame'[k].container) => ProgramExit(c)
       /\ \A c \in DOMAIN containers' :
             c \notin DOMAIN containers =>
                (c = F(k).container /\ Exec_Register(k))

\* C27: every call creates at most one new container and acts on that
\* container only.
C27_NotShared ==
    [](C27_OwnProgram)
      /\ [][/\ \A k \in CallIds : C27_CreatesOneNew(k) /\ C27_ActsOnOwn(k)
            /\ \A c \in ContainerIds :
                  (env[c].st # "created" /\ env'[c].st = "created") =>
                     env[c].st = "none"]_vars

C27_Witness ==
    \E k \in CallIds, c \in ContainerIds :
       /\ F(k).kind = "suite" /\ F(k).i = 2 /\ F(k).pc = "wait"
       /\ c # F(k).container
       /\ env[c].st = "exited"
       /\ env[F(k).container].st = "running"

\* C28: for every call of execute_python_code, also one with an explicit
\* timeout, the effective timeout of the wait is shorter than the TTL of the
\* registry entry, and no sweep destroys the container of a call that is
\* still waiting.
C28_TimeoutBelowTTL ==
    \A k \in CallIds :
       F(k).pc = "wait" =>
          /\ F(k).timeout < ttl
          /\ F(k).deadline <
                containers[F(k).container].expires_at

\* C28: the effective timeout of every wait is shorter than the TTL, and no
\* sweep touches the container of a waiting call.
C28_ShorterThanTTL ==
    [](C28_TimeoutBelowTTL)
      /\ [][cleanup_expired_containers =>
              \A k \in CallIds :
                 F(k).pc = "wait" => env'[F(k).container] = env[F(k).container]]_vars

\* C29: the Reaper is one background task that keeps going for the life of
\* the process: a call of start_cleanup_task that finds a task leaves the
\* task and its timer as they are; a sleeping task stops only through
\* shutdown; every sweep, also one whose destroys failed, ends with the task
\* asleep for another interval; and a sweep that has come due takes place
\* unless the service shuts down first.
C29_Armed ==
    cleanup_task = "sleeping" => wake_at <= now + SweepInterval

C29_OneLoop ==
    [][/\ (start_cleanup_task /\ cleanup_task # "none") =>
             UNCHANGED <<cleanup_task, wake_at>>
       /\ (cleanup_task = "sleeping" /\ cleanup_task' # "sleeping") =>
             (shutdown /\ cleanup_task' = "cancelled")
       /\ cleanup_task # "sleeping" =>
             (cleanup_task' = "sleeping" => (start_cleanup_task /\ cleanup_task = "none"))
       /\ cleanup_expired_containers =>
             (cleanup_task' = "sleeping" /\ wake_at' = now + SweepInterval)
       /\ wake_at' # wake_at =>
             (cleanup_expired_containers \/ cleanup_task = "none")]_vars

\* C29: one Reaper task, asleep for at most one interval at a time, ended by
\* shutdown only; a due sweep takes place.
C29_KeepsTicking ==
    /\ [](C29_Armed)
    /\ C29_OneLoop
    /\ (cleanup_task = "sleeping" /\ now >= wake_at)
          ~> (now < wake_at \/ phase = "stopped")

C29_Witness ==
    /\ phase = "serving"
    /\ cleanup_task = "sleeping"
    /\ errlog # {}
    /\ wake_at = now + SweepInterval
    /\ now >= 2 * SweepInterval

\* C30: the generated program parses the embedded input text as JSON and
\* falls back to the raw text when that fails; it calls solution with the
\* elements as positional arguments when the parsed value is an array, and
\* with the value as the one argument otherwise: for every test input the
\* program makes that call.
C30_Ran(k) ==
    /\ F(k).kind = "suite" /\ InExec(k) /\ F(k).container # 0
    /\ env[F(k).container].st = "exited"

C30_Expected(t, args) ==
    /\ \A v \in JsonSample :
          t = Dump(v) => args = (IF v.t = "list" THEN v.items ELSE <<v>>)
    /\ t \in NotJson => args = <<Text(t)>>

\* C30: for every test input, the program has called solution with the
\* arguments the parsed input gives.
C30_ParsesAndSpreads ==
    \A k \in CallIds :
       C30_Ran(k) =>
          /\ env[F(k).container].call # None
          /\ C30_Expected(F(k).tests[F(k).i].input, env[F(k).container].call[1])

\* what holds instead: the program makes that call when the input, spliced
\* into the program text, leaves the literal as it was written
C30_WhenCompiled ==
    \A k \in CallIds :
       (C30_Ran(k) /\ Embed(F(k).tests[F(k).i].input)
                         = Some(F(k).tests[F(k).i].input)) =>
          /\ env[F(k).container].call # None
          /\ C30_Expected(F(k).tests[F(k).i].input, env[F(k).container].call[1])

\* the example of the claim: [[2,7,11,15],9] calls solution([2,7,11,15], 9)
C30_Witness ==
    \E k \in CallIds :
       /\ C30_Ran(k)
       /\ F(k).tests[1].input =
             <<"[", "[", "2", ",", "7", ",", "1", "1", ",", "1", "5", "]", ",",
               "9", "]">>
       /\ env[F(k).container].call =
             Some(<<List(<<Num(2), Num(7), Num(11), Num(15)>>), Num(9)>>)

\* C33: every container is recorded in the registry with expires_at =
\* creation time + TTL, whatever the timeout argument, after it is created and
\* before it is started; no container starts running without its entry.
C33_Recorded ==
    \A k \in CallIds :
       /\ F(k).pc = "register" => env[F(k).container].st = "created"
       /\ F(k).pc = "start" =>
            /\ F(k).container \in DOMAIN containers
            /\ containers[F(k).container] =
                  RegistryEntry(env[F(k).container].created, ttl)

C33_StartsRecorded ==
    \A c \in ContainerIds :
       (env[c].st # "running" /\ env'[c].st = "running") =>
          /\ c \in DOMAIN containers
          /\ containers[c].expires_at = env[c].created + ttl

\* C33: a created container is registered with expiry = creation time + TTL
\* before it is started, and every container that starts has its entry.
C33_RegisteredBeforeStart == [](C33_Recorded) /\ [][C33_StartsRecorded]_vars

C33_Witness ==
    \E k \in CallIds :
       /\ F(k).pc = "wait"
       /\ F(k).timeout = 2 * DOCKER_TIMEOUT
       /\ ttl = CONTAINER_TTL
       /\ env[F(k).container].st = "running"
       /\ F(k).container \in DOMAIN containers
       /\ containers[F(k).container].expires_at =
             env[F(k).container].created + CONTAINER_TTL

\* C34: a sweep removes from the registry exactly the handles whose expiry is
\* strictly earlier than the sweep's clock reading and leaves every other
\* entry as it was; a handle that expires at the sweep time survives it.
C34_Survivors == {c \in DOMAIN containers : ~(containers[c].expires_at < now)}

\* C34: a sweep removes exactly the handles that expired strictly before its
\* clock reading and leaves every other entry unchanged.
C34_SweepRemovesExactly ==
    [][cleanup_expired_containers =>
         /\ DOMAIN containers' = C34_Survivors
         /\ \A c \in C34_Survivors : containers'[c] = containers[c]
         /\ \A c \in DOMAIN containers :
               containers[c].expires_at = now => c \in DOMAIN containers']_vars

C34_Witness ==
    /\ ttl = CONTAINER_TTL
    /\ phase = "serving"
    /\ loop = 0
    /\ wake_at = now + SweepInterval
    /\ \E c \in DOMAIN containers : containers[c].expires_at = now
    /\ \E d \in (errlog \cup oklog) \ DOMAIN containers :
          \E c \in DOMAIN containers : d < c

\* C35: when provisioning fails (the temp file or containers.create raises)
\* the call adds no registry entry, calls stop or remove on no container, and
\* returns success false, output null and an error; the registry is as it was.
C35_ProvisioningFailed(k) == F(k).container_id # 0 /\ F(k).container = 0

C35_Outcome ==
    \A k \in CallIds :
       (Returned(k) /\ C35_ProvisioningFailed(k)) =>
          /\ ~F(k).did_stop
          /\ ~F(k).did_remove
          /\ ~F(k).outcome[1].success
          /\ F(k).outcome[1].output = None
          /\ F(k).outcome[1].error # None
          /\ DOMAIN containers = F(k).before

\* the steps of a call that has no container by then
C35_Untouched ==
    \A k \in CallIds :
       (loop = k /\ InExec(k) /\ frame'[k] # frame[k]
          /\ frame'[k].container = 0) =>
          /\ containers' = containers
          /\ env' = env

\* C35: a call whose provisioning failed leaves the registry and every
\* container as they were and returns a failed outcome without output.
C35_ProvisioningFailure == [](C35_Outcome) /\ [][C35_Untouched]_vars

C35_Witness ==
    \E k \in CallIds :
       /\ Returned(k)
       /\ C35_ProvisioningFailed(k)
       /\ F(k).temp_file # 0
       /\ F(k).outcome[1].error = Some(StrFault)
       /\ F(k).before # {}
       /\ DOMAIN containers = F(k).before

\* C36: every program file execute_python_code created is deleted before the
\* call returns, on every exit path; between calls no program file of a
\* finished execution is left in the temp directory.
C36_OwnFileGone(k) == F(k).container_id # 0 => F(k).container_id \notin files

\* C36: a call that returned has deleted its program file, and with no call
\* in progress the temp directory holds no program file.
C36_ProgramFileDeleted ==
    /\ \A k \in CallIds : Returned(k) => C36_OwnFileGone(k)
    /\ loop = 0 => files = {}

\* C31: a boolean returned by solution is printed in the lowercase form
\* (true / false), so a solution returning True with the expected text "true"
\* passes; any other result is printed unchanged.
C31_Recorded(k) ==
    /\ F(k).kind = "suite"
    /\ Len(F(k).results) = 1
    /\ F(k).ran # None

C31_Canonical(b) ==
    IF b THEN <<"t", "r", "u", "e">> ELSE <<"f", "a", "l", "s", "e">>

C31_Unchanged(v) == IF v.t = "int" THEN Digits(v.n) ELSE v.s

\* C31: the harness prints a returned boolean as true / false and any other
\* result unchanged; True against the expected text "true" passes.
C31_BooleanLowercase ==
    \A k \in CallIds :
       (C31_Recorded(k) /\ F(k).ran[1].kind = "return") =>
          LET b == F(k).ran[1]
              r == F(k).results[1]
          IN /\ F(k).exc = <<>> => "actual" \in DOMAIN r
             /\ "actual" \in DOMAIN r =>
                  /\ b.value.t = "bool" =>
                       r.actual = Strip(b.printed \o C31_Canonical(b.value.b)
                                           \o <<"\n">>)
                  /\ b.value.t # "bool" =>
                       r.actual = Strip(b.printed \o C31_Unchanged(b.value)
                                           \o <<"\n">>)
                  /\ (b.value = Bool(TRUE) /\ b.printed = <<>>
                        /\ F(k).tests[1].expected_output
                              = Text(<<"t", "r", "u", "e">>)) => r.passed

C31_Witness ==
    \E k \in CallIds :
       /\ C31_Recorded(k)
       /\ F(k).ran[1] = [kind |-> "return", printed |-> <<>>, value |-> Bool(TRUE)]
       /\ F(k).tests[1].expected_output = Text(<<"t", "r", "u", "e">>)
       /\ F(k).results[1].passed
       /\ F(k).results[1].actual = <<"t", "r", "u", "e">>

\* C32: when the user's code raises inside the harness, the harness writes a
\* diagnostic to the error stream and the program ends with a non-zero
\* status, so the test case is recorded by the failed-outcome branch (passed
\* false, with an error field) and never by the comparison branch.
C32_Raised(k) ==
    /\ F(k).kind = "suite"
    /\ F(k).ran # None
    /\ F(k).ran[1].kind = "raise"

C32_ProgramFailed(k) ==
    (InExec(k) /\ env[F(k).container].st = "exited") =>
       /\ env[F(k).container].code # 0
       /\ Mentions(env[F(k).container].out[1], "Error: ")

C32_FailedBranch(r) ==
    /\ ~r.passed
    /\ "error" \in DOMAIN r
    /\ r.error # None
    /\ "actual" \notin DOMAIN r

C37_ReturnedExpected(b, expected_output) ==
    /\ b.kind = "return"
    /\ Strip(PrintResult(b.value)) = Strip(PyStr(expected_output))

\* C37: every result recorded as passed comes from a program whose solution
\* returned the expected value.
C37_PassedOnlyByResult ==
    \A k \in CallIds :
       (F(k).kind = "suite" /\ Len(F(k).results) = 1 /\ F(k).results[1].passed) =>
          /\ F(k).ran # None
          /\ C37_ReturnedExpected(F(k).ran[1], F(k).tests[1].expected_output)

\* the case of the claim: the user's code prints the expected text and ends
\* the process with status 0, and the test case is recorded as passed
C37_Witness ==
    \E k \in CallIds :
       /\ F(k).kind = "suite"
       /\ Len(F(k).results) = 1
       /\ F(k).results[1].passed
       /\ F(k).ran = Some([kind |-> "exit", printed |-> <<"t", "r", "u", "e", "\n">>,
                           code |-> 0])
       /\ F(k).tests[1].expected_output = Text(<<"t", "r", "u", "e">>)


\* ------------------------------------------------------------ C38
\* the get-question responses that carry a question
C38_Answered(k) ==
    /\ F(k).kind = "get"
    /\ F(k).pc = "done"
    /\ F(k).question # None

\* the positions of the test cases whose is_hidden is false or absent
C38_Shown(test_cases) ==
    {j \in 1..Len(test_cases) :
        \/ "is_hidden" \notin DOMAIN test_cases[j]
        \/ test_cases[j].is_hidden = FALSE}

\* C38: visible_test_cases of a get-question response holds exactly the
\* question's test cases whose is_hidden is false or absent, in their
\* original order; test_cases_count counts every test case; no test case
\* with is_hidden true is in the response.
C38_VisibleTestCases ==
    \A k \in CallIds :
       C38_Answered(k) =>
          LET test_cases == F(k).question[1].test_cases
              response   == F(k).ret[1]
              visible    == response.visible_test_cases
              shown      == C38_Shown(test_cases)
          IN /\ Len(visible) = Cardinality(shown)
             /\ \A j \in shown :
                   visible[Cardinality({m \in shown : m <= j})] = test_cases[j]
             /\ \A j \in 1..Len(visible) :
                   ~("is_hidden" \in DOMAIN visible[j] /\ visible[j].is_hidden)
             /\ response.test_cases_count = Len(test_cases)

\* a response for the question whose hidden test case lies between two
\* shown ones: two of its three test cases are returned
C38_Witness ==
    \E k \in CallIds :
       /\ C38_Answered(k)
       /\ F(k).question[1]._id = "q4"
       /\ F(k).ret[1].test_cases_count = 3
       /\ F(k).ret[1].visible_test_cases = <<Shown9, Visible5>>


\* ------------------------------------------------------------ C39
\* the submit-code responses that carry the result of the suite
C39_Submitted(k) ==
    /\ F(k).kind = "submit"
    /\ F(k).pc = "done"
    /\ F(k).ret # None
    /\ "execution_result" \in DOMAIN F(k).ret[1]

\* the test case of the question that an entry of test_results reports on
C39_TestCaseOf(k, r) == F(k).question[1].test_cases[r.test_case]

\* C39: the test_results returned by submit-code contain input and expected
\* values only for test cases whose is_hidden flag is not true, so that no
\* response exposes the input or expected output of a hidden test case.
C39_HiddenNotExposed ==
    \A k \in CallIds :
       C39_Submitted(k) =>
          LET test_results == F(k).ret[1].execution_result.test_results IN
            \A j \in 1..Len(test_results) :
               ("input" \in DOMAIN test_results[j]
                  \/ "expected" \in DOMAIN test_results[j])
               => LET tc == C39_TestCaseOf(k, test_results[j]) IN
                    ~("is_hidden" \in DOMAIN tc /\ tc.is_hidden = TRUE)

\* a response to a submission for the question whose only test case is
\* hidden: its one entry carries that test case's input
C39_Witness ==
    \E k \in CallIds :
       /\ C39_Submitted(k)
       /\ F(k).question[1]._id = "q2"
       /\ Len(F(k).ret[1].execution_result.test_results) = 1
       /\ F(k).ret[1].execution_result.test_results[1].input = Hidden7.input


\* ------------------------------------------------------------ C40
\* the submit-code requests whose response (not an HTTP error) is built
C40_Responded(k) ==
    /\ F(k).kind = "submit"
    /\ F(k).pc = "done"
    /\ F(k).ret # None
    /\ "is_correct" \in DOMAIN F(k).ret[1]

\* the response reports is_correct only for a suite all of whose test cases
\* passed
C40_CorrectOnlyIfSuccess ==
    \A k \in CallIds :
       C40_Responded(k) =>
          (F(k).ret[1].is_correct => F(k).ret[1].execution_result.success)

\* the submission records stored under the id of request k
C40_RecordsOf(k) ==
    {j \in 1..Len(db.code_submissions) :
        db.code_submissions[j].submission_id = F(k).submission_id}

\* one record is stored for a submission that was answered
C40_OneRecord ==
    \A k \in CallIds :
       C40_Responded(k) => Cardinality(C40_RecordsOf(k)) = 1

\* the wrong-attempt summaries are those of the submissions stored as wrong
C40_SummaryIffWrong ==
    (\E k \in CallIds : C40_Responded(k)) =>
       Len(db.user_attempt_summaries) =
          Cardinality({j \in 1..Len(db.code_submissions) :
                          ~db.code_submissions[j].is_correct})

\* C40: for every submission handled by submit-code the response reports
\* is_correct = true only if the suite result has success = true; a
\* wrong-attempt summary is stored exactly when is_correct is false; exactly
\* one submission record is stored per evaluated submission.
C40_VerdictFollowsSuite ==
    /\ C40_CorrectOnlyIfSuccess
    /\ C40_SummaryIffWrong
    /\ C40_OneRecord

\* a response that reports a correct submission although the suite failed;
\* one record and no summary are stored
C40_Witness ==
    \E k \in CallIds :
       /\ C40_Responded(k)
       /\ F(k).ret[1].is_correct
       /\ ~F(k).ret[1].execution_result.success
       /\ F(k).ret[1].execution_result.passed_tests
             < F(k).ret[1].execution_result.total_tests
       /\ Cardinality(C40_RecordsOf(k)) = 1
       /\ db.user_attempt_summaries = <<>>

====
